---- MODULE Spec2Model ----
(***************************************************************************)
(* Session and transport core of lldap-cli (src/src/client.ts).            *)
(*                                                                         *)
(* One LldapClient object and the server it talks to.  The client's        *)
(* fields are the variables; every asynchronous method is cut at its       *)
(* await points: a Call* action runs a method up to its first fetch (or    *)
(* to its end), a *Response action delivers one HTTP response and runs on  *)
(* to the next await, a *BackoffElapsed action ends a setTimeout sleep.    *)
(* The server's answers are chosen nondeterministically.  log, pre and     *)
(* result observe the call in progress; they are not read by the client.   *)
(***************************************************************************)
EXTENDS Integers, Sequences, FiniteSets, TLC

VARIABLES
    config,              \* Config handed to the constructor (never mutated)
    token,               \* this.token
    refreshToken,        \* this.refreshToken
    shouldLogout,        \* this.shouldLogout
    rateLimitRetryCount, \* this.rateLimitRetryCount
    lastActivityTime,    \* this.lastActivityTime (epoch ms)
    now,                 \* Date.now() (epoch ms)
    call,                \* the top-level method call in progress, with its arguments
    pc,                  \* where that call is suspended
    result,              \* how the last call settled (resolved, or the Error thrown)
    log,                 \* what the call in progress did: requests, responses, sleeps
    pre,                 \* the client's fields when the call in progress began
    proc                 \* the CLI process running a command (src/src/cli.ts)

vars == <<config, token, refreshToken, shouldLogout, rateLimitRetryCount,
          lastActivityTime, now, call, pc, result, log, pre, proc>>

----------------------------------------------------------------------------
(* Bounds of the model *)

\* a call in progress takes no further step once its log is this long
MaxEvents == 11
\* seconds of backoff sleep and of idle time (beyond one session timeout)
\* the clock is allowed to advance
MaxExtraSeconds == 3
\* characters of an email address spelled out after its run of letters
MaxEmailTail == 5

(* Program constants *)

MAX_RATE_LIMIT_RETRIES == 3
RATE_LIMIT_BACKOFF_MS == 1000
SESSION_TIMEOUT_MS == 30 * 60 * 1000
MAX_EMAIL_LENGTH == 254
MAX_USERNAME_LENGTH == 64
ACCESS_BUFFER_SECONDS == 60
REFRESH_BUFFER_SECONDS == 300

\* the instants the clock of the model may show: at most one idle period of
\* a session timeout (or 1 ms more), and MaxExtraSeconds of backoff sleeps
ClockInBounds(t) ==
    /\ t <= SESSION_TIMEOUT_MS + 1 + MaxExtraSeconds * 1000
    /\ t % SESSION_TIMEOUT_MS <= 1 + MaxExtraSeconds * 1000

----------------------------------------------------------------------------
(* Tokens: a token string is described by what isTokenExpired reads of it:  *)
(* the number of dot-separated segments, whether the payload decodes to a  *)
(* JSON object and whether that has an exp claim (epoch seconds).          *)

Tok(nseg, claims, exp) == [nseg |-> nseg, claims |-> claims, exp |-> exp]

\* undefined (no token stored); falsy like the empty string
None == Tok(0, "undefined", 0)
\* a JWT whose exp lies far beyond every instant of the model
TokFar == Tok(3, "exp", 1000000)
\* a JWT that enters the 60 s buffer one second after the epoch of the model
TokSoon == Tok(3, "exp", 61)
\* an opaque string without dots, like 'auth-token' in the tests
TokOpaque == Tok(1, "none", 0)

\* isTokenExpired(token, bufferSeconds), read at instant t
isTokenExpired(tok, bufferSeconds, t) ==
    IF tok.nseg # 3 THEN TRUE
    ELSE IF tok.claims = "garbage" THEN TRUE
    ELSE IF tok.claims = "noexp" \/ tok.exp = 0 THEN FALSE
    ELSE t >= tok.exp * 1000 - bufferSeconds * 1000

----------------------------------------------------------------------------
(* Credentials: a username is described by its length and by whether all   *)
(* its characters are in [a-zA-Z0-9_.-]; a password by being empty or not. *)

User(len, charsOk) == [len |-> len, charsOk |-> charsOk]
NoUser == User(0, TRUE)
Admin == User(5, TRUE)
NoPass == "undefined"
Secret == "secret"

\* (mutant) the length of the username is not checked
validateUsername_NoLength(u) ==
    IF u.len = 0 \/ ~u.charsOk THEN "InvalidUsername" ELSE "ok"

\* validateUsername: "ok", or the kind of Error it throws
validateUsername(u) ==
    IF u.len > MAX_USERNAME_LENGTH THEN "InputTooLong"
    ELSE IF u.len = 0 \/ ~u.charsOk THEN "InvalidUsername"
    ELSE "ok"

----------------------------------------------------------------------------
(* Server text (response bodies, GraphQL error messages): a sequence of    *)
(* whitespace-separated words.                                             *)

WordsWith429 == {"429", "token=abc429"}
TokenWords == {"token=abc429", "token=abc123XYZ"}
PasswordWords == {"password=hunter2"}

\* text.replace(/token[=:]\S+/gi, 'token=[REDACTED]')
RedactToken(text) ==
    [i \in DOMAIN text |-> IF text[i] \in TokenWords THEN "token=[REDACTED]" ELSE text[i]]

\* text.replace(/password[=:]\S+/gi, 'password=[REDACTED]')
RedactPassword(text) ==
    [i \in DOMAIN text |-> IF text[i] \in PasswordWords THEN "password=[REDACTED]" ELSE text[i]]

ServerTexts == {<<"denied">>, <<"error", "429">>, <<"token=abc123XYZ">>}

----------------------------------------------------------------------------
(* Errors and results.  kind names the fixed part of the message, text is  *)
(* the server text embedded in it.                                         *)

Err(kind, text) == [ok |-> FALSE, kind |-> kind, text |-> text]
Resolved == [ok |-> TRUE, kind |-> "ok", text |-> <<>>]
Pending == [ok |-> FALSE, kind |-> "pending", text |-> <<>>]
\* login() resolved with { token, refreshToken }
ReturnedTokens(tok, rtok) ==
    [ok |-> TRUE, kind |-> "ok", text |-> <<>>, token |-> tok, refreshToken |-> rtok]

\* new Error('Rate limit exceeded. Please try again later.')
RateLimitExceeded == Err("RateLimitExceeded", <<>>)
\* new Error('429 Rate limit exceeded')
Http429 == Err("Http429", <<>>)

\* error.message.includes('429')
Includes429(e) ==
    \/ e.kind = "Http429"
    \/ \E i \in DOMAIN e.text : e.text[i] \in WordsWith429

----------------------------------------------------------------------------
(* The log of the call in progress *)

\* rtok is the refresh token a login response carries
Ev(e, x, n, tok) == [e |-> e, x |-> x, n |-> n, tok |-> tok, rtok |-> None]
Logged(s, ev) == [s EXCEPT !.log = Append(@, ev)]

\* Math.pow(2, n)
RECURSIVE Pow2(_)
Pow2(n) == IF n <= 0 THEN 1 ELSE 2 * Pow2(n - 1)

----------------------------------------------------------------------------
(* The client as a record s, so that the pieces of one step compose *)

Cur ==
    [token |-> token, refreshToken |-> refreshToken, shouldLogout |-> shouldLogout,
     rateLimitRetryCount |-> rateLimitRetryCount,
     lastActivityTime |-> lastActivityTime, now |-> now,
     call |-> call, pc |-> pc, result |-> result, log |-> log]

Set(s) ==
    /\ token' = s.token
    /\ refreshToken' = s.refreshToken
    /\ shouldLogout' = s.shouldLogout
    /\ rateLimitRetryCount' = s.rateLimitRetryCount
    /\ lastActivityTime' = s.lastActivityTime
    /\ now' = s.now
    /\ call' = s.call
    /\ pc' = s.pc
    /\ result' = s.result
    /\ log' = s.log

\* the fields of the client, as pre records them
Fields(s) ==
    [token |-> s.token, refreshToken |-> s.refreshToken,
     shouldLogout |-> s.shouldLogout,
     rateLimitRetryCount |-> s.rateLimitRetryCount,
     lastActivityTime |-> s.lastActivityTime, now |-> s.now]

\* the top-level call settles
Finish(s, r) == [s EXCEPT !.pc = "done", !.result = r]
\* an Error on its way up the stack
Thrown(s, e) == [s EXCEPT !.pc = "thrown", !.result = e]

----------------------------------------------------------------------------
(* handleRateLimit *)

\* (mutant) the cap is compared with > instead of >=
RateLimitCatch_OffByOne(s, e, backoffPc) ==
    IF Includes429(e)
    THEN LET c == s.rateLimitRetryCount + 1
             counted == [s EXCEPT !.rateLimitRetryCount = c]
         IN  IF c > MAX_RATE_LIMIT_RETRIES
             THEN Thrown(counted, RateLimitExceeded)
             ELSE [Logged(counted, Ev("sleep", backoffPc,
                                      RATE_LIMIT_BACKOFF_MS * Pow2(c - 1), None))
                     EXCEPT !.pc = backoffPc]
    ELSE Thrown(s, e)

\* (mutant) every backoff is the base delay
RateLimitCatch_FlatBackoff(s, e, backoffPc) ==
    IF Includes429(e)
    THEN LET c == s.rateLimitRetryCount + 1
             counted == [s EXCEPT !.rateLimitRetryCount = c]
         IN  IF c >= MAX_RATE_LIMIT_RETRIES
             THEN Thrown(counted, RateLimitExceeded)
             ELSE [Logged(counted, Ev("sleep", backoffPc, RATE_LIMIT_BACKOFF_MS, None))
                     EXCEPT !.pc = backoffPc]
    ELSE Thrown(s, e)

\* the catch block of handleRateLimit: error e was thrown by the operation.
\* Either the loop goes to sleep at backoffPc, or an Error leaves the loop.
RateLimitCatch(s, e, backoffPc) ==
    IF Includes429(e)
    THEN LET c == s.rateLimitRetryCount + 1
             counted == [s EXCEPT !.rateLimitRetryCount = c]
         IN  IF c >= MAX_RATE_LIMIT_RETRIES
             THEN Thrown(counted, RateLimitExceeded)
             ELSE [Logged(counted, Ev("sleep", backoffPc,
                                      RATE_LIMIT_BACKOFF_MS * Pow2(c - 1), None))
                     EXCEPT !.pc = backoffPc]
    ELSE Thrown(s, e)

\* (mutant) the counter is not reset on success
RateLimitSuccess_NoReset(s) == s

\* the operation returned: this.rateLimitRetryCount = 0
RateLimitSuccess(s) == [s EXCEPT !.rateLimitRetryCount = 0]

\* the while condition of handleRateLimit
RateLimitMayTry(s) == s.rateLimitRetryCount < MAX_RATE_LIMIT_RETRIES

----------------------------------------------------------------------------
(* Upload file paths: a relative path is the sequence of its segments, an   *)
(* absolute path the sequence of segments below the root.                   *)

\* process.cwd()
Cwd == <<"home", "u">>

\* path.resolve(filePath): the segments are applied to the working
\* directory from left to right, '..' dropping the last one (none at the root)
RECURSIVE ResolveFrom(_, _)
ResolveFrom(dir, path) ==
    IF path = <<>> THEN dir
    ELSE IF path[1] = ".."
    THEN ResolveFrom(IF dir = <<>> THEN dir ELSE SubSeq(dir, 1, Len(dir) - 1), Tail(path))
    ELSE ResolveFrom(Append(dir, path[1]), Tail(path))

resolve(path) == ResolveFrom(Cwd, path)

\* segments in which the characters '..' occur
DotDotSegments == {"..", "x..y"}

\* what validateFilePath throws instead of returning a path
Traversal == <<"..">>

\* validateFilePath: normalize(resolve(filePath)) unless it includes '..'
validateFilePath(path) ==
    LET normalized == resolve(path)
    IN  IF \E i \in DOMAIN normalized : normalized[i] \in DotDotSegments
        THEN Traversal ELSE normalized

\* the files of the file system: every directory holds these
FileNames == {"x", "x..y"}
existsSync(abs) == abs # <<>> /\ abs[Len(abs)] \in FileNames

\* query was given a file argument
HasFile(c) == "file" \in DOMAIN c

----------------------------------------------------------------------------
(* query: the operation wrapped by its handleRateLimit *)

\* an Error thrown inside query's operation reaches query's handleRateLimit
QueryCatch(s, e) ==
    LET t == RateLimitCatch(s, e, "query_backoff")
    IN  IF t.pc = "thrown" THEN Finish(t, t.result) ELSE t

\* (mutant) the bearer is the token held before the step that re-authenticated
QueryPost_StaleToken(s) ==
    [Logged(s, Ev("req", "graphql", 0, token)) EXCEPT !.pc = "graphql_wait"]

\* fetch the GraphQL endpoint with the stored token
QueryFetch(s) ==
    [Logged(s, Ev("req", "graphql", 0, s.token)) EXCEPT !.pc = "graphql_wait"]

\* build the body (reading the upload file when one is given) and fetch
QueryPost(s) ==
    IF ~HasFile(s.call) THEN QueryFetch(s)
    ELSE LET validated == validateFilePath(s.call.file)
         IN  IF validated = Traversal THEN QueryCatch(s, Err("PathTraversal", <<>>))
             ELSE IF ~existsSync(validated)
             THEN QueryCatch(s, Err("FileNotFound", s.call.file))
             ELSE QueryFetch(Logged(s, Ev("read", "file", Len(validated), None)))

\* (mutant) a 401 makes the session drop its token and authenticate again
QueryResponse_Reauth401(s, r) ==
    LET got == Logged(s, Ev("resp", r.body, r.status, r.token))
    IN  IF r.status = 0 THEN QueryCatch(got, Err("Network", <<>>))
        ELSE IF r.status = 401
             THEN [Logged([got EXCEPT !.token = None],
                          Ev("sleep", "query_backoff", RATE_LIMIT_BACKOFF_MS, None))
                     EXCEPT !.pc = "query_backoff"]
        ELSE IF r.status = 429 THEN QueryCatch(got, Http429)
        ELSE IF r.status \notin 200..299
             THEN QueryCatch(got, Err("GraphQLFailed", RedactToken(r.text)))
        ELSE IF r.body \in {"errors", "errors+data"}
             THEN QueryCatch(got, Err("GraphQLError", RedactToken(r.text)))
        ELSE IF r.body # "data" THEN QueryCatch(got, Err("NoData", <<>>))
        ELSE Finish(RateLimitSuccess(got), Resolved)

\* the response of the GraphQL endpoint, down to the return of data
QueryResponse(s, r) ==
    LET got == Logged(s, Ev("resp", r.body, r.status, r.token))
    IN  IF r.status = 0 THEN QueryCatch(got, Err("Network", <<>>))
        ELSE IF r.status = 401 THEN QueryCatch(got, Err("AuthFailed", <<>>))
        ELSE IF r.status = 429 THEN QueryCatch(got, Http429)
        ELSE IF r.status \notin 200..299
             THEN QueryCatch(got, Err("GraphQLFailed", RedactToken(r.text)))
        ELSE IF r.body \in {"errors", "errors+data"}
             THEN QueryCatch(got, Err("GraphQLError", RedactToken(r.text)))
        ELSE IF r.body # "data" THEN QueryCatch(got, Err("NoData", <<>>))
        ELSE Finish(RateLimitSuccess(got), Resolved)

----------------------------------------------------------------------------
(* login *)

\* login() rejected: the Error reaches whoever awaited login()
LoginRejected(t) ==
    IF t.call.fn = "query" THEN QueryCatch(t, t.result) ELSE Finish(t, t.result)

\* an Error thrown inside login's operation reaches login's handleRateLimit
LoginCatch(s, e) ==
    LET t == RateLimitCatch(s, e, "login_backoff")
    IN  IF t.pc = "thrown" THEN LoginRejected(t) ELSE t

\* (mutant) ensureAuthenticated does not set shouldLogout
LoginResolved_NoMark(s) ==
    IF s.call.fn = "query" THEN QueryPost(s) ELSE Finish(s, Resolved)

\* login() resolved: back in ensureAuthenticated (which sets shouldLogout)
\* and from there in query, or at top level
LoginResolved(s) ==
    IF s.call.fn = "login" THEN Finish(s, ReturnedTokens(s.token, s.refreshToken))
    ELSE LET marked == [s EXCEPT !.shouldLogout = TRUE]
         IN  IF s.call.fn = "query" THEN QueryPost(marked)
             ELSE Finish(marked, Resolved)

\* the operation of login up to its fetch
LoginOperation(s) ==
    LET user == IF s.call.user # NoUser THEN s.call.user ELSE config.username
        pass == IF s.call.pass # NoPass THEN s.call.pass ELSE config.password
    IN  IF user = NoUser \/ pass = NoPass
        THEN LoginCatch(s, Err("LoginRequired", <<>>))
        ELSE IF validateUsername(user) # "ok"
        THEN LoginCatch(s, Err(validateUsername(user), <<>>))
        ELSE [Logged(s, Ev("req", "login", 0, None)) EXCEPT !.pc = "login_wait"]

\* one turn of login's handleRateLimit loop
LoginLoop(s) ==
    IF RateLimitMayTry(s) THEN LoginOperation(s)
    ELSE LoginRejected(Thrown(s, RateLimitExceeded))

\* login(username, password) is called
Login(s) == LoginLoop(s)

\* (mutant) the activity is recorded as soon as the login endpoint answers
LoginResponse_TouchesFirst(s, r) ==
    LET got == [Logged(s, [Ev("resp", r.body, r.status, r.token)
                             EXCEPT !.rtok = r.refreshToken])
                  EXCEPT !.lastActivityTime = s.now]
    IN  IF r.status = 0 THEN LoginCatch(got, Err("Network", <<>>))
        ELSE IF r.status = 429 THEN LoginCatch(got, Http429)
        ELSE IF r.status \notin 200..299
             THEN LoginCatch(got, Err("LoginFailed", RedactPassword(r.text)))
        ELSE IF r.body = "unparsable" THEN LoginCatch(got, Err("BadJson", <<>>))
        ELSE LoginResolved(RateLimitSuccess(
                 [got EXCEPT !.token = r.token,
                             !.refreshToken = r.refreshToken,
                             !.lastActivityTime = got.now]))

\* the response of the login endpoint, down to the return of the tokens
LoginResponse(s, r) ==
    LET got == Logged(s, [Ev("resp", r.body, r.status, r.token)
                            EXCEPT !.rtok = r.refreshToken])
    IN  IF r.status = 0 THEN LoginCatch(got, Err("Network", <<>>))
        ELSE IF r.status = 429 THEN LoginCatch(got, Http429)
        ELSE IF r.status \notin 200..299
             THEN LoginCatch(got, Err("LoginFailed", RedactPassword(r.text)))
        ELSE IF r.body = "unparsable" THEN LoginCatch(got, Err("BadJson", <<>>))
        ELSE LoginResolved(RateLimitSuccess(
                 [got EXCEPT !.token = r.token,
                             !.refreshToken = r.refreshToken,
                             !.lastActivityTime = got.now]))

----------------------------------------------------------------------------
(* refresh *)

\* (mutant) ensureAuthenticated falls back to login() when the refresh fails
RefreshRejected_FallbackLogin(s, e) ==
    IF s.call.fn = "query" THEN QueryCatch(s, e)
    ELSE IF s.call.fn = "ensureAuthenticated" THEN Login(s)
    ELSE Finish(s, e)

\* refresh() rejected: the Error reaches whoever awaited refresh()
RefreshRejected(s, e) ==
    IF s.call.fn = "query" THEN QueryCatch(s, e) ELSE Finish(s, e)

\* refresh() resolved: back in ensureAuthenticated and from there in query
RefreshResolved(s) ==
    IF s.call.fn = "query" THEN QueryPost(s) ELSE Finish(s, Resolved)

\* refresh() up to its fetch
Refresh(s) ==
    IF s.refreshToken = None
    THEN RefreshRejected(s, Err("RefreshRequired", <<>>))
    ELSE [Logged(s, Ev("req", "refresh", 0, s.refreshToken))
            EXCEPT !.pc = "refresh_wait"]

\* (mutant) the refresh token is replaced by what the response carries
RefreshResponse_StoresBoth(s, r) ==
    LET got == Logged(s, Ev("resp", r.body, r.status, r.token))
    IN  IF r.status = 0 THEN RefreshRejected(got, Err("Network", <<>>))
        ELSE IF r.status \notin 200..299
             THEN RefreshRejected(got, Err("RefreshFailed", r.text))
        ELSE RefreshResolved([got EXCEPT !.token = r.token,
                                         !.refreshToken = r.refreshToken])

\* the response of the refresh endpoint
RefreshResponse(s, r) ==
    LET got == Logged(s, Ev("resp", r.body, r.status, r.token))
    IN  IF r.status = 0 THEN RefreshRejected(got, Err("Network", <<>>))
        ELSE IF r.status \notin 200..299
             THEN RefreshRejected(got, Err("RefreshFailed", r.text))
        ELSE IF r.body = "unparsable" THEN RefreshRejected(got, Err("BadJson", <<>>))
        ELSE RefreshResolved([got EXCEPT !.token = r.token])

----------------------------------------------------------------------------
(* logout, cleanup *)

\* logout() up to its fetch
Logout(s) ==
    IF s.refreshToken = None
    THEN Finish(s, Err("LogoutRequired", <<>>))
    ELSE [Logged(s, Ev("req", "logout", 0, s.refreshToken))
            EXCEPT !.pc = "logout_wait"]

\* (mutant) the session is forgotten once the logout endpoint answered
LogoutResponse_ForgetsSession(s, r) ==
    LET got == [Logged(s, Ev("resp", r.body, r.status, r.token))
                  EXCEPT !.token = None, !.refreshToken = None,
                         !.shouldLogout = FALSE]
    IN  IF r.status = 0 THEN Finish(got, Err("Network", <<>>))
        ELSE Finish(got, Resolved)

\* the response of the logout endpoint is awaited and not looked at
LogoutResponse(s, r) ==
    LET got == Logged(s, Ev("resp", r.body, r.status, r.token))
    IN  IF r.status = 0 THEN Finish(got, Err("Network", <<>>))
        ELSE Finish(got, Resolved)

\* (mutant) cleanup logs out whenever a refresh token is held
cleanup_IgnoresFlag(s) ==
    IF s.refreshToken # None THEN Logout(s) ELSE Finish(s, Resolved)

\* cleanup: logout() if this session logged in by itself
cleanup(s) ==
    IF s.shouldLogout /\ s.refreshToken # None THEN Logout(s) ELSE Finish(s, Resolved)

----------------------------------------------------------------------------
(* ensureAuthenticated *)

\* ensureAuthenticated() rejected: the Error reaches query, or the caller
EnsureRejected(s, e) ==
    IF s.call.fn = "query" THEN QueryCatch(s, e) ELSE Finish(s, e)

\* ensureAuthenticated() resolved: query goes on to its fetch
EnsureResolved(s) ==
    IF s.call.fn = "query" THEN QueryPost(s) ELSE Finish(s, Resolved)

\* (mutant) the session times out at the limit already
SessionTimedOut_AtLimit(s) == s.now - s.lastActivityTime >= SESSION_TIMEOUT_MS

\* elapsed > SESSION_TIMEOUT_MS
SessionTimedOut(s) == s.now - s.lastActivityTime > SESSION_TIMEOUT_MS

\* (mutant) the activity is not recorded
checkSessionTimeout_NoTouch(s) ==
    IF SessionTimedOut(s)
    THEN Thrown([s EXCEPT !.token = None, !.refreshToken = None],
                Err("SessionTimeout", <<>>))
    ELSE s

\* (mutant) the timeout clears the access token only
checkSessionTimeout_KeepsRefresh(s) ==
    IF SessionTimedOut(s)
    THEN Thrown([s EXCEPT !.token = None], Err("SessionTimeout", <<>>))
    ELSE [s EXCEPT !.lastActivityTime = s.now]

\* checkSessionTimeout: throws with both tokens cleared, or records the activity
checkSessionTimeout(s) ==
    IF SessionTimedOut(s)
    THEN Thrown([s EXCEPT !.token = None, !.refreshToken = None],
                Err("SessionTimeout", <<>>))
    ELSE [s EXCEPT !.lastActivityTime = s.now]

\* this.token && !this.isTokenExpired(this.token)
HasValidToken(s) ==
    s.token # None /\ ~isTokenExpired(s.token, ACCESS_BUFFER_SECONDS, s.now)

\* this.isTokenExpired(this.refreshToken, 300): only warns
RefreshTokenExpiring(s) ==
    isTokenExpired(s.refreshToken, REFRESH_BUFFER_SECONDS, s.now)

\* ensureAuthenticated up to its first fetch; the log records the branch taken
\* and the elapsed time checkSessionTimeout saw
ensureAuthenticated(s) ==
    LET elapsed == s.now - s.lastActivityTime
        checked == checkSessionTimeout(s)
    IN  IF checked.pc = "thrown"
        THEN EnsureRejected(Logged(checked, Ev("ensure", "timeout", elapsed, None)),
                            checked.result)
        ELSE IF HasValidToken(checked)
        THEN EnsureResolved(Logged(checked, Ev("ensure", "valid", elapsed, None)))
        ELSE IF checked.refreshToken # None
        THEN Refresh(Logged(checked,
                 Ev("ensure",
                    IF RefreshTokenExpiring(checked) THEN "refresh_warned" ELSE "refresh",
                    elapsed, None)))
        ELSE Login(Logged(checked, Ev("ensure", "login", elapsed, None)))

\* one turn of query's handleRateLimit loop
QueryLoop(s) ==
    IF RateLimitMayTry(s) THEN ensureAuthenticated(s)
    ELSE Finish(s, RateLimitExceeded)


----------------------------------------------------------------------------
(* What the server may answer.  status 0 stands for a fetch that rejects   *)
(* (no response); body names the shape of the body, text its words.        *)

Resp(status, body, text, tok, rtok) ==
    [status |-> status, body |-> body, text |-> text, token |-> tok, refreshToken |-> rtok]

NetworkError == Resp(0, "none", <<>>, None, None)

LoginResponses ==
    {Resp(200, "tokens", <<>>, TokFar, TokFar), Resp(200, "tokens", <<>>, TokOpaque, TokFar),
     Resp(200, "tokens", <<>>, TokOpaque, None)}
    \cup {Resp(401, "text", x, None, None) : x \in ServerTexts}
    \cup {Resp(429, "text", <<"denied">>, None, None), NetworkError}

RefreshResponses ==
    {Resp(200, "tokens", <<>>, t, None) : t \in {TokFar, TokOpaque}}
    \cup {Resp(401, "text", x, None, None) : x \in ServerTexts}
    \cup {Resp(429, "text", <<"denied">>, None, None), NetworkError}

GraphQLResponses ==
    {Resp(200, "data", <<>>, None, None), Resp(200, "empty", <<>>, None, None)}
    \cup {Resp(200, "errors", x, None, None) : x \in ServerTexts}
    \cup {Resp(200, "errors+data", <<"denied">>, None, None)}
    \cup {Resp(500, "text", x, None, None) : x \in ServerTexts}
    \cup {Resp(401, "text", <<"denied">>, None, None),
          Resp(429, "text", <<"denied">>, None, None), NetworkError}

LogoutResponses ==
    {Resp(200, "empty", <<>>, None, None), Resp(500, "text", <<"denied">>, None, None),
     NetworkError}

----------------------------------------------------------------------------
(* Configurations and arguments *)

\* the credentials of the Config; its token and refreshToken are read by the
\* constructor alone
Configs == [username : {Admin}, password : {NoPass, Secret}]
ConfigTokens == {None, TokFar, TokSoon, TokOpaque}
ConfigRefreshTokens == {None, TokFar, TokOpaque}

LoginUsers == {NoUser, User(5, FALSE), User(MAX_USERNAME_LENGTH, TRUE),
               User(MAX_USERNAME_LENGTH + 1, TRUE)}
LoginPasswords == {NoPass, Secret}

Call(fn, user, pass) == [fn |-> fn, user |-> user, pass |-> pass]

----------------------------------------------------------------------------
(* The CLI process: phase is where the command action stands, status the   *)
(* exit status (-1 while running), stdout whether the output was printed,   *)
(* stderr the Error handleError printed.                                    *)

Process(phase, status, stdout, stderr) ==
    [phase |-> phase, status |-> status, stdout |-> stdout, stderr |-> stderr]

\* the client used as a library: no command is running
NoProcess == Process("none", -1, FALSE, Pending)

(* Init: new LldapClient(config) *)

Init ==
    /\ config \in Configs
    /\ token \in ConfigTokens
    /\ refreshToken \in ConfigRefreshTokens
    /\ shouldLogout = FALSE
    /\ rateLimitRetryCount = 0
    /\ now = 0
    /\ lastActivityTime = now
    /\ call = Call("none", NoUser, NoPass)
    /\ pc = "idle"
    /\ result = Pending
    /\ log = <<>>
    /\ pre = [token |-> token, refreshToken |-> refreshToken, shouldLogout |-> FALSE,
              rateLimitRetryCount |-> 0, lastActivityTime |-> 0, now |-> 0]
    /\ proc = NoProcess

----------------------------------------------------------------------------
(* Actions *)

Idle == pc \in {"idle", "done"}

\* the client as a top-level call fn(user, pass) begins
Begin(fn, user, pass) ==
    [Cur EXCEPT !.call = Call(fn, user, pass), !.result = Pending, !.log = <<>>]

CallQuery ==
    /\ Idle
    /\ Set(QueryLoop(Begin("query", NoUser, NoPass)))
    /\ pre' = Fields(Cur)
    /\ UNCHANGED <<config, proc>>

CallLogin ==
    /\ Idle
    /\ \E u \in LoginUsers, p \in LoginPasswords : Set(Login(Begin("login", u, p)))
    /\ pre' = Fields(Cur)
    /\ UNCHANGED <<config, proc>>

CallRefresh ==
    /\ Idle
    /\ Set(Refresh(Begin("refresh", NoUser, NoPass)))
    /\ pre' = Fields(Cur)
    /\ UNCHANGED <<config, proc>>

CallLogout ==
    /\ Idle
    /\ Set(Logout(Begin("logout", NoUser, NoPass)))
    /\ pre' = Fields(Cur)
    /\ UNCHANGED <<config, proc>>

CallEnsureAuthenticated ==
    /\ Idle
    /\ Set(ensureAuthenticated(Begin("ensureAuthenticated", NoUser, NoPass)))
    /\ pre' = Fields(Cur)
    /\ UNCHANGED <<config, proc>>

CallCleanup ==
    /\ Idle
    /\ Set(cleanup(Begin("cleanup", NoUser, NoPass)))
    /\ pre' = Fields(Cur)
    /\ UNCHANGED <<config, proc>>

LoginResponded ==
    /\ pc = "login_wait"
    /\ Len(log) < MaxEvents
    /\ \E r \in LoginResponses : Set(LoginResponse(Cur, r))
    /\ UNCHANGED <<config, pre, proc>>

RefreshResponded ==
    /\ pc = "refresh_wait"
    /\ Len(log) < MaxEvents
    /\ \E r \in RefreshResponses : Set(RefreshResponse(Cur, r))
    /\ UNCHANGED <<config, pre, proc>>

GraphQLResponded ==
    /\ pc = "graphql_wait"
    /\ Len(log) < MaxEvents
    /\ \E r \in GraphQLResponses : Set(QueryResponse(Cur, r))
    /\ UNCHANGED <<config, pre, proc>>

LogoutResponded ==
    /\ pc = "logout_wait"
    /\ \E r \in LogoutResponses : Set(LogoutResponse(Cur, r))
    /\ UNCHANGED <<config, pre, proc>>

\* the setTimeout of the backoff fires: the clock has advanced by the backoff
Backoff == log[Len(log)].n

LoginBackoffElapsed ==
    /\ pc = "login_backoff"
    /\ ClockInBounds(now + Backoff)
    /\ Set(LoginLoop([Cur EXCEPT !.now = now + Backoff]))
    /\ UNCHANGED <<config, pre, proc>>

QueryBackoffElapsed ==
    /\ pc = "query_backoff"
    /\ ClockInBounds(now + Backoff)
    /\ Set(QueryLoop([Cur EXCEPT !.now = now + Backoff]))
    /\ UNCHANGED <<config, pre, proc>>

\* time passes between two calls
IdleTimes == {SESSION_TIMEOUT_MS, SESSION_TIMEOUT_MS + 1}

Tick ==
    /\ Idle
    /\ \E d \in IdleTimes : ClockInBounds(now + d) /\ now' = now + d
    /\ UNCHANGED <<config, token, refreshToken, shouldLogout, rateLimitRetryCount,
                   lastActivityTime, call, pc, result, log, pre, proc>>

Next ==
    \/ CallQuery
    \/ CallLogin
    \/ CallRefresh
    \/ CallLogout
    \/ CallEnsureAuthenticated
    \/ CallCleanup
    \/ LoginResponded
    \/ RefreshResponded
    \/ GraphQLResponded
    \/ LogoutResponded
    \/ LoginBackoffElapsed
    \/ QueryBackoffElapsed
    \/ Tick

Spec == Init /\ [][Next]_vars

----------------------------------------------------------------------------
(* The command 'user list' of the CLI (src/src/cli.ts): buildConfig, new    *)
(* LldapClient, one query() through UserService, console.log, cleanup(),    *)
(* all inside one try whose catch is handleError.                           *)

\* exitCodes.ts
ExitCode ==
    [SUCCESS |-> 0, ERROR |-> 1, USAGE |-> 64, UNAVAILABLE |-> 69, IOERR |-> 74,
     TEMPFAIL |-> 75, NOPERM |-> 77, CONFIG |-> 78]

\* the client and the process as one record
CliCur == [proc |-> proc] @@ Cur

CliSet(s) == Set(s) /\ proc' = s.proc

\* handleError: console.error(`ERROR: ${error.message}`); process.exit(1)
handleError(s, e) ==
    [s EXCEPT !.proc = Process("exited", 1, s.proc.stdout, e)]

\* the action returned: the process ends with status 0
ActionReturned(s) ==
    [s EXCEPT !.proc = Process("exited", ExitCode.SUCCESS, s.proc.stdout, s.proc.stderr)]

\* await client.cleanup() settled
CleanupSettled(s) ==
    IF s.pc # "done" THEN s
    ELSE IF s.result.ok THEN ActionReturned(s)
    ELSE handleError(s, s.result)

\* the query of the command body settled: console.log(output), then
\* await client.cleanup(); an Error goes to the catch
BodySettled(s) ==
    IF s.pc # "done" THEN s
    ELSE IF s.result.ok
    THEN CleanupSettled(cleanup(
             [s EXCEPT !.call = Call("cleanup", NoUser, NoPass), !.result = Pending,
                       !.proc.phase = "cleanup", !.proc.stdout = TRUE]))
    ELSE handleError(s, s.result)

\* the command action resumes after a step of the client
CommandResume(s) ==
    IF s.proc.phase = "body" THEN BodySettled(s) ELSE CleanupSettled(s)

\* buildConfig: a username is required when neither token is configured
buildConfig(s) ==
    IF s.token = None /\ s.refreshToken = None /\ config.username = NoUser
    THEN "UsernameRequired" ELSE "ok"

\* the action of 'user list' up to its first await on the network
UserList(s) ==
    IF buildConfig(s) # "ok" THEN handleError(s, Err(buildConfig(s), <<>>))
    ELSE BodySettled(QueryLoop(
             [s EXCEPT !.call = Call("query", NoUser, NoPass), !.result = Pending,
                       !.log = <<>>, !.proc.phase = "body"]))

CliConfigs == [username : {Admin, NoUser}, password : {NoPass, Secret}]

\* a process started with the options and environment of a configuration
CliInit ==
    /\ config \in CliConfigs
    /\ token \in ConfigTokens
    /\ refreshToken \in ConfigRefreshTokens
    /\ shouldLogout = FALSE
    /\ rateLimitRetryCount = 0
    /\ now = 0
    /\ lastActivityTime = now
    /\ call = Call("none", NoUser, NoPass)
    /\ pc = "idle"
    /\ result = Pending
    /\ log = <<>>
    /\ pre = [token |-> token, refreshToken |-> refreshToken, shouldLogout |-> FALSE,
              rateLimitRetryCount |-> 0, lastActivityTime |-> 0, now |-> 0]
    /\ proc = Process("start", -1, FALSE, Pending)

Running == proc.phase \in {"body", "cleanup"}

CliUserList ==
    /\ proc.phase = "start"
    /\ CliSet(UserList(CliCur))
    /\ UNCHANGED <<config, pre>>

CliLoginResponded ==
    /\ Running /\ pc = "login_wait"
    /\ Len(log) < MaxEvents
    /\ \E r \in LoginResponses : CliSet(CommandResume(LoginResponse(CliCur, r)))
    /\ UNCHANGED <<config, pre>>

CliRefreshResponded ==
    /\ Running /\ pc = "refresh_wait"
    /\ Len(log) < MaxEvents
    /\ \E r \in RefreshResponses : CliSet(CommandResume(RefreshResponse(CliCur, r)))
    /\ UNCHANGED <<config, pre>>

CliGraphQLResponded ==
    /\ Running /\ pc = "graphql_wait"
    /\ Len(log) < MaxEvents
    /\ \E r \in GraphQLResponses : CliSet(CommandResume(QueryResponse(CliCur, r)))
    /\ UNCHANGED <<config, pre>>

CliLogoutResponded ==
    /\ Running /\ pc = "logout_wait"
    /\ \E r \in LogoutResponses : CliSet(CommandResume(LogoutResponse(CliCur, r)))
    /\ UNCHANGED <<config, pre>>

CliLoginBackoffElapsed ==
    /\ Running /\ pc = "login_backoff"
    /\ ClockInBounds(now + Backoff)
    /\ CliSet(CommandResume(LoginLoop([CliCur EXCEPT !.now = now + Backoff])))
    /\ UNCHANGED <<config, pre>>

CliQueryBackoffElapsed ==
    /\ Running /\ pc = "query_backoff"
    /\ ClockInBounds(now + Backoff)
    /\ CliSet(CommandResume(QueryLoop([CliCur EXCEPT !.now = now + Backoff])))
    /\ UNCHANGED <<config, pre>>

CliNext ==
    \/ CliUserList
    \/ CliLoginResponded
    \/ CliRefreshResponded
    \/ CliGraphQLResponded
    \/ CliLogoutResponded
    \/ CliLoginBackoffElapsed
    \/ CliQueryBackoffElapsed

CliSpec == CliInit /\ [][CliNext]_vars


----------------------------------------------------------------------------
(* isTokenExpired on its own: a token and an instant are drawn, and the     *)
(* check is applied with the buffer of the access-token check (default 60)  *)
(* or of the refresh-token advisory check (300).                            *)

ExpirySegments == 1..4
ExpiryClaims == {"garbage", "noexp", "exp"}
ExpirySeconds == {0, 1, 61, 301, 400}
ExpiryTokens ==
    {Tok(n, c, IF c = "exp" THEN e ELSE 0) :
        n \in ExpirySegments, c \in ExpiryClaims, e \in ExpirySeconds}
ExpiryTimes == {0, 999, 1000, 99999, 100000, 339999, 340000, 400000}

\* what the check returned
Verdict(expired) ==
    [ok |-> TRUE, kind |-> IF expired THEN "expired" ELSE "not expired", text |-> <<>>]

ExpiryInit ==
    /\ config \in {[username |-> Admin, password |-> NoPass]}
    /\ token \in ExpiryTokens
    /\ refreshToken \in ExpiryTokens
    /\ shouldLogout = FALSE
    /\ rateLimitRetryCount = 0
    /\ now \in ExpiryTimes
    /\ lastActivityTime = now
    /\ call = Call("none", NoUser, NoPass)
    /\ pc = "idle"
    /\ result = Pending
    /\ log = <<>>
    /\ pre = [token |-> token, refreshToken |-> refreshToken, shouldLogout |-> FALSE,
              rateLimitRetryCount |-> 0, lastActivityTime |-> now, now |-> now]
    /\ proc = NoProcess

\* this.isTokenExpired(this.token)
CheckAccessToken ==
    /\ pc = "idle"
    /\ pc' = "access_checked"
    /\ result' = Verdict(isTokenExpired(token, ACCESS_BUFFER_SECONDS, now))
    /\ UNCHANGED <<config, token, refreshToken, shouldLogout, rateLimitRetryCount,
                   lastActivityTime, now, call, log, pre, proc>>

\* this.isTokenExpired(this.refreshToken, 300)
CheckRefreshToken ==
    /\ pc = "idle"
    /\ pc' = "refresh_checked"
    /\ result' = Verdict(isTokenExpired(refreshToken, REFRESH_BUFFER_SECONDS, now))
    /\ UNCHANGED <<config, token, refreshToken, shouldLogout, rateLimitRetryCount,
                   lastActivityTime, now, call, log, pre, proc>>

ExpiryNext == CheckAccessToken \/ CheckRefreshToken

ExpirySpec == ExpiryInit /\ [][ExpiryNext]_vars


----------------------------------------------------------------------------
(* validateEmail on its own.  An email address is a run of head letters     *)
(* followed by the characters of tail, each a letter "x", "@", "." or a     *)
(* blank " ".                                                               *)

Email(head, tail) == [head |-> head, tail |-> tail]
EmailChars == {"x", "@", ".", " "}
EmailHeads == {0, 1, MAX_EMAIL_LENGTH - MaxEmailTail, MAX_EMAIL_LENGTH - MaxEmailTail + 1}
Emails ==
    {Email(h, q) : h \in EmailHeads,
                   q \in UNION {[1..n -> EmailChars] : n \in 0..MaxEmailTail}}

\* email.length
EmailLength(e) == e.head + Len(e.tail)

\* the characters the regular expression runs over: for it a run of letters
\* is as good as one letter
EmailText(e) == IF e.head > 0 THEN <<"x">> \o e.tail ELSE e.tail

\* /^[^\s@]+@[^\s@]+\.[^\s@]+$/.test(email)
EmailPattern(q) ==
    \E i, j \in DOMAIN q :
        /\ 1 < i /\ i + 1 < j /\ j < Len(q)
        /\ q[i] = "@" /\ q[j] = "."
        /\ \A k \in DOMAIN q : k # i => q[k] \notin {"@", " "}

\* validateEmail: resolves, or the Error it throws
validateEmail(e) ==
    IF EmailLength(e) > MAX_EMAIL_LENGTH THEN Err("InputTooLong", <<>>)
    ELSE IF ~EmailPattern(EmailText(e)) THEN Err("InvalidEmail", <<>>)
    ELSE Resolved

EmailInit ==
    /\ config \in {[username |-> Admin, password |-> NoPass]}
    /\ token = None
    /\ refreshToken = None
    /\ shouldLogout = FALSE
    /\ rateLimitRetryCount = 0
    /\ now = 0
    /\ lastActivityTime = now
    /\ call \in {[fn |-> "validateEmail", user |-> NoUser, pass |-> NoPass, email |-> e] :
                    e \in Emails}
    /\ pc = "idle"
    /\ result = Pending
    /\ log = <<>>
    /\ pre = [token |-> token, refreshToken |-> refreshToken, shouldLogout |-> FALSE,
              rateLimitRetryCount |-> 0, lastActivityTime |-> now, now |-> now]
    /\ proc = NoProcess

CallValidateEmail ==
    /\ pc = "idle"
    /\ pc' = "done"
    /\ result' = validateEmail(call.email)
    /\ UNCHANGED <<config, token, refreshToken, shouldLogout, rateLimitRetryCount,
                   lastActivityTime, now, call, log, pre, proc>>

EmailNext == CallValidateEmail

EmailSpec == EmailInit /\ [][EmailNext]_vars


----------------------------------------------------------------------------
(* query() with an upload file, on a client holding a valid token *)

\* the longest path given has this many segments
MaxPathLen == 3
PathSegments == {"..", "a", "x", "x..y", "429"}
FilePaths == UNION {[1..n -> PathSegments] : n \in 1..MaxPathLen}

FileInit ==
    /\ config \in {[username |-> Admin, password |-> Secret]}
    /\ token = TokFar
    /\ refreshToken = None
    /\ shouldLogout = FALSE
    /\ rateLimitRetryCount = 0
    /\ now = 0
    /\ lastActivityTime = now
    /\ call = Call("none", NoUser, NoPass)
    /\ pc = "idle"
    /\ result = Pending
    /\ log = <<>>
    /\ pre = [token |-> token, refreshToken |-> refreshToken, shouldLogout |-> FALSE,
              rateLimitRetryCount |-> 0, lastActivityTime |-> 0, now |-> 0]
    /\ proc = NoProcess

CallQueryWithFile ==
    /\ pc = "idle"
    /\ \E f \in FilePaths :
          Set(QueryLoop([Cur EXCEPT !.call = [fn |-> "query", user |-> NoUser,
                                              pass |-> NoPass, file |-> f],
                                    !.result = Pending, !.log = <<>>]))
    /\ pre' = Fields(Cur)
    /\ UNCHANGED <<config, proc>>

FileNext ==
    \/ CallQueryWithFile
    \/ GraphQLResponded
    \/ QueryBackoffElapsed

FileSpec == FileInit /\ [][FileNext]_vars


----------------------------------------------------------------------------
(* query() on a client that has credentials and no refresh token, against   *)
(* a server that accepts every login and may answer each GraphQL POST with  *)
(* 429.                                                                     *)

\* a call in progress takes no further step once its log is this long
MaxRetryEvents == 22

RetryLoginResponses ==
    {Resp(200, "tokens", <<>>, TokFar, None), Resp(200, "tokens", <<>>, TokOpaque, None)}

RetryGraphQLResponses ==
    {Resp(200, "data", <<>>, None, None), Resp(429, "text", <<"denied">>, None, None)}

RetryInit ==
    /\ config \in {[username |-> Admin, password |-> Secret]}
    /\ token \in {None, TokFar, TokOpaque}
    /\ refreshToken = None
    /\ shouldLogout = FALSE
    /\ rateLimitRetryCount = 0
    /\ now = 0
    /\ lastActivityTime = now
    /\ call = Call("none", NoUser, NoPass)
    /\ pc = "idle"
    /\ result = Pending
    /\ log = <<>>
    /\ pre = [token |-> token, refreshToken |-> refreshToken, shouldLogout |-> FALSE,
              rateLimitRetryCount |-> 0, lastActivityTime |-> 0, now |-> 0]
    /\ proc = NoProcess

RetryLoginResponded ==
    /\ pc = "login_wait"
    /\ Len(log) < MaxRetryEvents
    /\ \E r \in RetryLoginResponses : Set(LoginResponse(Cur, r))
    /\ UNCHANGED <<config, pre, proc>>

RetryGraphQLResponded ==
    /\ pc = "graphql_wait"
    /\ Len(log) < MaxRetryEvents
    /\ \E r \in RetryGraphQLResponses : Set(QueryResponse(Cur, r))
    /\ UNCHANGED <<config, pre, proc>>

RetryNext ==
    \/ CallQuery
    \/ RetryLoginResponded
    \/ RetryGraphQLResponded
    \/ QueryBackoffElapsed

RetrySpec == RetryInit /\ [][RetryNext]_vars


----------------------------------------------------------------------------
(* login() and refresh() against a server whose 2xx answer may also have a  *)
(* body that response.json() cannot parse.                                 *)

UnparsableResponse == Resp(200, "unparsable", <<>>, None, None)

ParseLoginResponded ==
    /\ pc = "login_wait"
    /\ Len(log) < MaxEvents
    /\ \E r \in LoginResponses \cup {UnparsableResponse} : Set(LoginResponse(Cur, r))
    /\ UNCHANGED <<config, pre, proc>>

ParseRefreshResponded ==
    /\ pc = "refresh_wait"
    /\ Len(log) < MaxEvents
    /\ \E r \in RefreshResponses \cup {UnparsableResponse} : Set(RefreshResponse(Cur, r))
    /\ UNCHANGED <<config, pre, proc>>

ParseNext ==
    \/ CallLogin
    \/ CallRefresh
    \/ ParseLoginResponded
    \/ ParseRefreshResponded
    \/ LoginBackoffElapsed
    \/ Tick

ParseSpec == Init /\ [][ParseNext]_vars

----------------------------------------------------------------------------
(* UserService.createUser with an avatar file (src/unnamed/part_003), on a  *)
(* client holding a valid token: the variables it builds and the body       *)
(* query() posts.  A JSON string value is Str(v), or the base64 text of a   *)
(* file's bytes.                                                            *)

\* the variables of createUser in the order JSON.stringify writes them
UserFields == <<"id", "email", "displayName", "firstName", "lastName", "avatar">>

UserIds == {"jdoe", "asmith"}
UserEmails == {"j@x.org", "a@x.org"}
OptionalValues == {"", "Jo", "Doe"}
AvatarFiles == {"x", "x.png"}

Str(v) == [kind |-> "text", v |-> v]

\* readFileSync(path), and its toString('base64')
FileContent(path) == [kind |-> "bytes", v |-> path]
Base64(bytes) == [kind |-> "base64", v |-> bytes.v]

\* options.f || ''
OrEmpty(v) == IF v = "" THEN Str("") ELSE Str(v)

\* the variables object createUser hands to query()
CreateUserVariables(a) ==
    [id |-> Str(a.id), email |-> Str(a.email),
     displayName |-> OrEmpty(a.displayName), firstName |-> OrEmpty(a.firstName),
     lastName |-> OrEmpty(a.lastName), avatar |-> OrEmpty(a.avatar)]

\* body.replace('""', `"${base64}"`): the first empty string of the body,
\* if there is one, becomes the encoded content
SpliceFirstEmpty(variables, base64) ==
    LET empties == {i \in DOMAIN UserFields : variables[UserFields[i]] = Str("")}
    IN  IF empties = {} THEN variables
        ELSE LET first == CHOOSE i \in empties : \A j \in empties : i <= j
             IN  [variables EXCEPT ![UserFields[first]] = base64]

\* the file branch of query(): the variables of the body that is posted
UploadBody(variables, file) ==
    SpliceFirstEmpty(variables, Base64(FileContent(file)))

UploadInit ==
    /\ config \in {[username |-> Admin, password |-> Secret]}
    /\ token = TokFar
    /\ refreshToken = None
    /\ shouldLogout = FALSE
    /\ rateLimitRetryCount = 0
    /\ now = 0
    /\ lastActivityTime = now
    /\ call \in {[fn |-> "createUser", user |-> NoUser, pass |-> NoPass,
                  args |-> [id |-> i, email |-> m, displayName |-> d, firstName |-> f,
                            lastName |-> l, avatar |-> a]] :
                    i \in UserIds, m \in UserEmails, d \in OptionalValues,
                    f \in OptionalValues, l \in OptionalValues, a \in AvatarFiles}
    /\ pc = "idle"
    /\ result = Pending
    /\ log = <<>>
    /\ pre = [token |-> token, refreshToken |-> refreshToken, shouldLogout |-> FALSE,
              rateLimitRetryCount |-> 0, lastActivityTime |-> 0, now |-> 0]
    /\ proc = NoProcess

\* createUser up to the fetch of query(): the request that is sent
CallCreateUser ==
    /\ pc = "idle" /\ call.fn = "createUser"
    /\ pc' = "graphql_wait"
    /\ log' = <<[e |-> "req", x |-> "graphql", n |-> 0, tok |-> token, rtok |-> None,
                 variables |-> UploadBody(CreateUserVariables(call.args), call.args.avatar)]>>
    /\ UNCHANGED <<config, token, refreshToken, shouldLogout, rateLimitRetryCount,
                   lastActivityTime, now, call, result, pre, proc>>

UploadNext == CallCreateUser

UploadSpec == UploadInit /\ [][UploadNext]_vars


----------------------------------------------------------------------------
(* updateUserAttribute and updateGroupAttribute, alone: the calls they make *)
(* to client.query, each of which the server answers or fails.  In this     *)
(* specification call is the invocation in progress (the method calls       *)
(* itself with 'clear' when a 'del' empties the list) and the first event   *)
(* of log is the invocation the caller made.                                *)

MaxListLen == 2
AttrValues == {"a", "b"}
ValueLists == UNION {[1..n -> AttrValues] : n \in 0..MaxListLen}
NoValue == "undefined"
ArgValues == {NoValue, ""} \cup AttrValues
MutationTypes == {"set", "clear", "add", "del", "rename"}
AttributeMethods == {"updateUserAttribute", "updateGroupAttribute"}

\* !value
Falsy(value) == value \in {NoValue, ""}

\* what schema.attributes.find(...) || null can be
SchemaAttributes == {[found |-> FALSE, isList |-> FALSE],
                     [found |-> TRUE, isList |-> FALSE],
                     [found |-> TRUE, isList |-> TRUE]}

\* currentValues.includes(value)
includes(currentValues, value) == \E i \in DOMAIN currentValues : currentValues[i] = value

\* currentValues.filter((v) => v !== value)
RECURSIVE filter(_, _)
filter(currentValues, value) ==
    IF currentValues = <<>> THEN <<>>
    ELSE IF Head(currentValues) = value THEN filter(Tail(currentValues), value)
    ELSE <<Head(currentValues)>> \o filter(Tail(currentValues), value)

\* the variables of the update mutation
InsertAttributes(isArray, value) ==
    [op |-> "insertAttributes", isArray |-> isArray, value |-> value]
RemoveAttributes == [op |-> "removeAttributes", isArray |-> FALSE, value |-> <<>>]

AttrEv(e, x, v) == [e |-> e, x |-> x, ok |-> TRUE, v |-> v]
AttrFailed(x) == [e |-> "answer", x |-> x, ok |-> FALSE, v |-> <<>>]
AttrCall(c) == AttrEv("call", c.fn, c)

\* the validation of the mutation against the schema, and the cases of the
\* switch that need no further read
AfterSchema(mutation, value, schemaAttr) ==
    IF ~schemaAttr.found THEN [do |-> "throw", e |-> Err("NotInSchema", <<>>)]
    ELSE IF mutation = "set" /\ schemaAttr.isList
         THEN [do |-> "throw", e |-> Err("IsList", <<>>)]
    ELSE IF mutation \in {"add", "del"} /\ ~schemaAttr.isList
         THEN [do |-> "throw", e |-> Err("NotList", <<>>)]
    ELSE IF mutation = "set"
         THEN [do |-> "update",
               variables |-> InsertAttributes(FALSE, <<IF Falsy(value) THEN "" ELSE value>>)]
    ELSE IF mutation = "clear" THEN [do |-> "values"]
    ELSE IF mutation \in {"add", "del"}
         THEN IF Falsy(value) THEN [do |-> "throw", e |-> Err("ValueRequired", <<>>)]
              ELSE [do |-> "values"]
    ELSE [do |-> "throw", e |-> Err("UnknownMutation", <<>>)]

\* (mutant) a 'del' that empties the list inserts the empty list
AfterValues_InsertsEmptyList(mutation, value, currentValues) ==
    IF mutation = "clear"
    THEN IF Len(currentValues) = 0
         THEN [do |-> "throw", e |-> Err("NothingToClear", <<>>)]
         ELSE [do |-> "update", variables |-> RemoveAttributes]
    ELSE IF mutation = "add"
    THEN [do |-> "update", variables |-> InsertAttributes(TRUE, Append(currentValues, value))]
    ELSE IF ~includes(currentValues, value)
         THEN [do |-> "throw", e |-> Err("NotListed", <<>>)]
         ELSE [do |-> "update",
               variables |-> InsertAttributes(TRUE, filter(currentValues, value))]

\* the cases of the switch once the current values were read
AfterValues(mutation, value, currentValues) ==
    IF mutation = "clear"
    THEN IF Len(currentValues) = 0
         THEN [do |-> "throw", e |-> Err("NothingToClear", <<>>)]
         ELSE [do |-> "update", variables |-> RemoveAttributes]
    ELSE IF mutation = "add"
    THEN [do |-> "update", variables |-> InsertAttributes(TRUE, Append(currentValues, value))]
    ELSE IF ~includes(currentValues, value)
         THEN [do |-> "throw", e |-> Err("NotListed", <<>>)]
         ELSE IF Len(filter(currentValues, value)) = 0
              THEN [do |-> "recurse"]
              ELSE [do |-> "update",
                    variables |-> InsertAttributes(TRUE, filter(currentValues, value))]

AttrInit ==
    /\ config \in {[username |-> Admin, password |-> Secret]}
    /\ token = TokFar
    /\ refreshToken = None
    /\ shouldLogout = FALSE
    /\ rateLimitRetryCount = 0
    /\ now = 0
    /\ lastActivityTime = now
    /\ call \in [fn : AttributeMethods, mutation : MutationTypes, value : ArgValues]
    /\ pc = "idle"
    /\ result = Pending
    /\ log = <<>>
    /\ pre = [token |-> token, refreshToken |-> refreshToken, shouldLogout |-> FALSE,
              rateLimitRetryCount |-> 0, lastActivityTime |-> 0, now |-> 0]
    /\ proc = NoProcess

AttrFixed ==
    UNCHANGED <<config, token, refreshToken, shouldLogout, rateLimitRetryCount,
                lastActivityTime, now, pre, proc>>

\* the method is entered: its first query (getGroupId for a group, else the schema)
AttrEnter(c, lg) ==
    /\ call' = c
    /\ result' = Pending
    /\ IF c.fn = "updateGroupAttribute"
       THEN pc' = "groups_wait" /\ log' = Append(lg, AttrEv("query", "groups", <<>>))
       ELSE pc' = "schema_wait" /\ log' = Append(lg, AttrEv("query", "schema", <<>>))

\* the method throws
AttrThrow(e, lg) == pc' = "done" /\ result' = e /\ log' = lg /\ UNCHANGED call

\* the method goes on as one of the operators above decided
AttrDo(d, lg) ==
    IF d.do = "throw" THEN AttrThrow(d.e, lg)
    ELSE IF d.do = "values"
    THEN /\ pc' = "values_wait" /\ log' = Append(lg, AttrEv("query", "values", <<>>))
         /\ UNCHANGED <<call, result>>
    ELSE IF d.do = "update"
    THEN /\ pc' = "update_wait" /\ log' = Append(lg, AttrEv("query", "update", d.variables))
         /\ UNCHANGED <<call, result>>
    ELSE AttrEnter([call EXCEPT !.mutation = "clear", !.value = NoValue], lg)

CallUpdateAttribute ==
    /\ pc = "idle"
    /\ AttrEnter(call, <<AttrCall(call)>>)
    /\ AttrFixed

\* getGroupId: the list of groups arrives (with or without the group), or not
GroupsAnswered ==
    /\ pc = "groups_wait"
    /\ \/ AttrThrow(Err("Network", <<>>), Append(log, AttrFailed("groups")))
       \/ \E a \in {"found", "absent"} :
            LET lg == Append(log, AttrEv("answer", "groups", a))
            IN  IF a = "absent" THEN AttrThrow(Err("NoGroup", <<>>), lg)
                ELSE /\ pc' = "schema_wait"
                     /\ log' = Append(lg, AttrEv("query", "schema", <<>>))
                     /\ UNCHANGED <<call, result>>
    /\ AttrFixed

\* getSchemaAttribute: the schema arrives, or not
SchemaAnswered ==
    /\ pc = "schema_wait"
    /\ \/ AttrThrow(Err("Network", <<>>), Append(log, AttrFailed("schema")))
       \/ \E a \in SchemaAttributes :
            AttrDo(AfterSchema(call.mutation, call.value, a),
                   Append(log, AttrEv("answer", "schema", a)))
    /\ AttrFixed

\* getUserAttributeValues, getGroupAttributeValues: the values arrive, or not
ValuesAnswered ==
    /\ pc = "values_wait"
    /\ \/ AttrThrow(Err("Network", <<>>), Append(log, AttrFailed("values")))
       \/ \E a \in ValueLists :
            AttrDo(AfterValues(call.mutation, call.value, a),
                   Append(log, AttrEv("answer", "values", a)))
    /\ AttrFixed

\* the update mutation is answered, or not
UpdateAnswered ==
    /\ pc = "update_wait"
    /\ \/ AttrThrow(Err("Network", <<>>), Append(log, AttrFailed("update")))
       \/ AttrThrow(Resolved, Append(log, AttrEv("answer", "update", <<>>)))
    /\ AttrFixed

AttrNext ==
    \/ CallUpdateAttribute
    \/ GroupsAnswered
    \/ SchemaAnswered
    \/ ValuesAnswered
    \/ UpdateAnswered

AttrSpec == AttrInit /\ [][AttrNext]_vars

----------------------------------------------------------------------------
(* setPassword and the subprocess it spawns.  In this specification proc    *)
(* is the subprocess of Bun.spawn: what it still has to write, what lies    *)
(* unread in the pipes of its three streams, and whether it has exited.     *)
(* The program lldap_set_password is not part of the repository: any        *)
(* program that reads its input, writes to its two outputs and exits is     *)
(* allowed.  Whether the runtime empties a piped output on its own, or      *)
(* only when the stream is read, is left open (proc.eager).                 *)

\* how much a pipe holds before a write to it blocks
PipeCapacity == 2
\* the most the subprocess writes to one of its outputs
MaxOutput == PipeCapacity + 1
ExitCodes == {0, 1}

PasswordLengths == {7, 8, 128, 129}
Passwords == [len : PasswordLengths, hasLetter : BOOLEAN, hasNumber : BOOLEAN]
\* a string argument: whether it holds one of the characters refused, or is blank
InputTexts == [dangerous : BOOLEAN, blank : BOOLEAN]
GoodText == [dangerous |-> FALSE, blank |-> FALSE]

\* validateInput(value, fieldName)
validateInput(value) ==
    IF value.dangerous THEN Err("DangerousCharacters", <<>>)
    ELSE IF value.blank THEN Err("EmptyInput", <<>>)
    ELSE Resolved

\* validatePassword(password)
validatePassword(password) ==
    IF password.len < 8 THEN Err("PasswordTooShort", <<>>)
    ELSE IF password.len > 128 THEN Err("PasswordTooLong", <<>>)
    ELSE IF ~password.hasLetter \/ ~password.hasNumber THEN Err("PasswordTooSimple", <<>>)
    ELSE Resolved

\* the four validations of setPassword, in their order
ValidateSetPassword(c) ==
    IF ~validateInput(c.userId).ok THEN validateInput(c.userId)
    ELSE IF ~validatePassword(c.password).ok THEN validatePassword(c.password)
    ELSE IF ~validateInput(c.httpUrl).ok THEN validateInput(c.httpUrl)
    ELSE validateInput(c.token)

\* Bun.spawn([...], { stdin: 'pipe', stdout: 'pipe', stderr: 'pipe' }), then
\* stdin.write(password + '\n') and stdin.end()
Spawned(outLeft, errLeft, exitCode, eager) ==
    [phase |-> "running", code |-> exitCode, eager |-> eager,
     stdin |-> 1, stdinOpen |-> FALSE,
     stdout |-> 0, stderr |-> 0, outLeft |-> outLeft, errLeft |-> errLeft,
     readOut |-> FALSE, readErr |-> FALSE]

PasswordCalls ==
    {[fn |-> "setPassword", userId |-> u, password |-> p, httpUrl |-> GoodText, token |-> t] :
        u \in InputTexts, p \in Passwords, t \in {GoodText, [dangerous |-> TRUE, blank |-> FALSE]}}

PasswordInit ==
    /\ config \in {[username |-> Admin, password |-> Secret]}
    /\ token = TokFar
    /\ refreshToken = None
    /\ shouldLogout = FALSE
    /\ rateLimitRetryCount = 0
    /\ now = 0
    /\ lastActivityTime = now
    /\ call \in PasswordCalls
    /\ pc = "idle"
    /\ result = Pending
    /\ log = <<>>
    /\ pre = [token |-> token, refreshToken |-> refreshToken, shouldLogout |-> FALSE,
              rateLimitRetryCount |-> 0, lastActivityTime |-> 0, now |-> 0]
    /\ proc = NoProcess

PasswordFixed ==
    UNCHANGED <<config, token, refreshToken, shouldLogout, rateLimitRetryCount,
                lastActivityTime, now, call, log, pre>>

\* setPassword up to 'await proc.exited'
CallSetPassword ==
    /\ pc = "idle"
    /\ IF ~ValidateSetPassword(call).ok
       THEN pc' = "done" /\ result' = ValidateSetPassword(call) /\ UNCHANGED proc
       ELSE /\ \E outLeft \in 0..MaxOutput, errLeft \in 0..MaxOutput,
                  exitCode \in ExitCodes, eager \in BOOLEAN :
                 proc' = Spawned(outLeft, errLeft, exitCode, eager)
            /\ pc' = "await_exited"
            /\ UNCHANGED result
    /\ PasswordFixed

ChildRunning == proc.phase = "running"

\* the subprocess reads the password line
ChildReadsInput ==
    /\ ChildRunning /\ proc.stdin > 0
    /\ proc' = [proc EXCEPT !.stdin = 0]
    /\ UNCHANGED <<pc, result>> /\ PasswordFixed

\* the subprocess writes to its standard output: possible while the pipe has room
ChildWritesOutput ==
    /\ ChildRunning /\ proc.outLeft > 0 /\ proc.stdout < PipeCapacity
    /\ proc' = [proc EXCEPT !.stdout = @ + 1, !.outLeft = @ - 1]
    /\ UNCHANGED <<pc, result>> /\ PasswordFixed

\* the subprocess writes to its standard error: possible while the pipe has room
ChildWritesError ==
    /\ ChildRunning /\ proc.errLeft > 0 /\ proc.stderr < PipeCapacity
    /\ proc' = [proc EXCEPT !.stderr = @ + 1, !.errLeft = @ - 1]
    /\ UNCHANGED <<pc, result>> /\ PasswordFixed

\* the subprocess exits once it has written all it had to
ChildExits ==
    /\ ChildRunning /\ proc.outLeft = 0 /\ proc.errLeft = 0
    /\ proc' = [proc EXCEPT !.phase = "exited"]
    /\ UNCHANGED <<pc, result>> /\ PasswordFixed

\* a runtime that reads the piped outputs on its own takes what lies in them
RuntimeReadsPipes ==
    /\ ChildRunning /\ proc.eager /\ (proc.stdout > 0 \/ proc.stderr > 0)
    /\ proc' = [proc EXCEPT !.stdout = 0, !.stderr = 0,
                             !.readOut = @ \/ proc.stdout > 0,
                             !.readErr = @ \/ proc.stderr > 0]
    /\ UNCHANGED <<pc, result>> /\ PasswordFixed

\* 'await proc.exited' resolves: status 0 returns, another status reads stderr
ExitedResolved ==
    /\ pc = "await_exited" /\ proc.phase = "exited"
    /\ IF proc.code = 0
       THEN pc' = "done" /\ result' = Resolved
       ELSE pc' = "stderr_wait" /\ UNCHANGED result
    /\ UNCHANGED proc /\ PasswordFixed

\* 'await new Response(proc.stderr).text()' resolves, and setPassword throws
StderrRead ==
    /\ pc = "stderr_wait"
    /\ proc' = [proc EXCEPT !.stderr = 0, !.readErr = TRUE]
    /\ pc' = "done"
    /\ result' = Err("SetPasswordFailed", <<>>)
    /\ PasswordFixed

PasswordNext ==
    \/ CallSetPassword
    \/ ChildReadsInput
    \/ ChildWritesOutput
    \/ ChildWritesError
    \/ ChildExits
    \/ RuntimeReadsPipes
    \/ ExitedResolved
    \/ StderrRead

PasswordSpec == PasswordInit /\ [][PasswordNext]_vars

----------------------------------------------------------------------------
(* Reading the log of the call in progress *)

IsReq(ev) == ev.e = "req"
IsResp(ev) == ev.e = "resp"
IsSleep(ev) == ev.e = "sleep"
IsEnsure(ev) == ev.e = "ensure"
IsGraphQLReq(ev) == ev.e = "req" /\ ev.x = "graphql"

Requests == SelectSeq(log, IsReq)
Responses == SelectSeq(log, IsResp)
Sleeps == SelectSeq(log, IsSleep)
Ensures == SelectSeq(log, IsEnsure)
\* what was requested, in order
RequestKinds == [i \in DOMAIN Requests |-> Requests[i].x]
\* the statuses answered, in order
Statuses == [i \in DOMAIN Responses |-> Responses[i].n]
\* the backoff waits, in order
Waits == [i \in DOMAIN Sleeps |-> Sleeps[i].n]
\* the kinds of the events, in order
Shape == [i \in DOMAIN log |-> log[i].e]

InCall(fn) == call.fn = fn /\ pc # "idle"
Done(fn) == call.fn = fn /\ pc = "done"

\* when the call began the session was within its timeout
PreLive == pre.now - pre.lastActivityTime <= SESSION_TIMEOUT_MS
\* when the call began the client held an access token its check accepts
PreTokenValid ==
    pre.token # None /\ ~isTokenExpired(pre.token, ACCESS_BUFFER_SECONDS, pre.now)
\* ... and accepts for as long as a call with all its backoff waits can last
PreTokenStaysValid ==
    /\ PreLive
    /\ pre.token # None
    /\ ~isTokenExpired(pre.token, ACCESS_BUFFER_SECONDS,
                       pre.now + RATE_LIMIT_BACKOFF_MS * (Pow2(MAX_RATE_LIMIT_RETRIES - 1) - 1))
\* the credentials login() resolves from its arguments and the configuration
ResolvedUser == IF call.user # NoUser THEN call.user ELSE config.username
ResolvedPass == IF call.pass # NoPass THEN call.pass ELSE config.password
CredentialsOk ==
    ResolvedUser # NoUser /\ ResolvedPass # NoPass /\ validateUsername(ResolvedUser) = "ok"

----------------------------------------------------------------------------
(* C1: a query() on a client whose retry counter is 0 and whose access     *)
(* token is valid for the whole call, and a login() with usable            *)
(* credentials and retry counter 0: when every response has status 429,    *)
(* exactly 3 requests are sent, with a backoff wait between two            *)
(* consecutive ones and none after the last, the call fails with the       *)
(* 'Rate limit exceeded' error, and there is never a 4th request.          *)

All429 == \A i \in DOMAIN Responses : Responses[i].n = 429

C1_Premise ==
    /\ pre.rateLimitRetryCount = 0
    /\ All429
    /\ \/ InCall("query") /\ PreTokenStaysValid
       \/ InCall("login") /\ CredentialsOk

C1_ThreeAttemptsThenRateLimit ==
    C1_Premise =>
        /\ Len(Requests) <= 3
        /\ Len(Sleeps) <= 2
        /\ pc = "done" =>
            /\ Len(Requests) = 3
            /\ result = RateLimitExceeded
            /\ call.fn = "query" =>
                /\ RequestKinds = <<"graphql", "graphql", "graphql">>
                /\ Shape = <<"ensure", "req", "resp", "sleep",
                             "ensure", "req", "resp", "sleep",
                             "ensure", "req", "resp">>
            /\ call.fn = "login" =>
                /\ RequestKinds = <<"login", "login", "login">>
                /\ Shape = <<"req", "resp", "sleep", "req", "resp", "sleep", "req", "resp">>

C1_Witness ==
    /\ Done("query")
    /\ C1_Premise
    /\ Len(Requests) = 3
    /\ result = RateLimitExceeded

----------------------------------------------------------------------------
(* C2: a query() on a client whose retry counter is 0 and whose access     *)
(* token is valid for the whole call: when the GraphQL endpoint answers    *)
(* 429 once and then 200 with data, query() resolves after exactly 2       *)
(* requests, both GraphQL POSTs, and exactly one backoff wait, of 1000 ms, *)
(* and the retry counter is 0 when it returns.                             *)

C2_Premise ==
    /\ Done("query")
    /\ pre.rateLimitRetryCount = 0
    /\ PreTokenStaysValid
    /\ Len(Responses) = 2
    /\ Responses[1].n = 429
    /\ Responses[2].n = 200 /\ Responses[2].x = "data"

C2_OneRetryThenSuccess ==
    C2_Premise =>
        /\ result = Resolved
        /\ RequestKinds = <<"graphql", "graphql">>
        /\ Waits = <<1000>>
        /\ rateLimitRetryCount = 0

C2_Witness == C2_Premise /\ result = Resolved /\ Waits = <<1000>>


----------------------------------------------------------------------------
(* C3: handleRateLimit retries only after a response of status 429: every  *)
(* backoff wait of a call directly follows a 429 response, and a failure   *)
(* with any other status or cause ends the call with the retry counter as  *)
(* it was.                                                                 *)

C3_RetryOnlyOnStatus429 ==
    \A i \in DOMAIN log :
        IsSleep(log[i]) => i > 1 /\ IsResp(log[i - 1]) /\ log[i - 1].n = 429

----------------------------------------------------------------------------
(* C4: whenever a top-level query() or login() begins, the retry counter   *)
(* is 0, however the earlier calls on the client ended.                    *)

C4_CounterZeroWhenCallBegins ==
    (InCall("query") \/ InCall("login")) => pre.rateLimitRetryCount = 0

----------------------------------------------------------------------------
(* C5: an ensureAuthenticated(), called directly or by query(), that runs  *)
(* more than 30 minutes after the last recorded activity fails with the    *)
(* session-timeout error: the call ends there with both tokens absent and  *)
(* without any request, whatever credentials are configured.  At 30        *)
(* minutes or less it does not time out.                                   *)

C5_TimeoutClearsTokensSendsNothing ==
    \A i \in DOMAIN log :
        IsEnsure(log[i]) =>
            /\ i = 1 => log[i].n = pre.now - pre.lastActivityTime
            /\ log[i].n <= SESSION_TIMEOUT_MS => log[i].x # "timeout"
            /\ log[i].n > SESSION_TIMEOUT_MS =>
                /\ log[i].x = "timeout"
                /\ i = Len(log)
                /\ pc = "done"
                /\ result = Err("SessionTimeout", <<>>)
                /\ token = None
                /\ refreshToken = None

C5_Witness ==
    /\ Done("query")
    /\ result.kind = "SessionTimeout"
    /\ pre.now - pre.lastActivityTime = SESSION_TIMEOUT_MS + 1
    /\ pre.token # None /\ pre.refreshToken # None
    /\ config.password = Secret
    /\ token = None /\ refreshToken = None
    /\ Requests = <<>>

----------------------------------------------------------------------------
(* C6: ensureAuthenticated() on a session that is not timed out and holds  *)
(* an access token not expired under the 60 s buffer resolves without any  *)
(* request, leaves both tokens as they were and sets the activity          *)
(* timestamp to the time of the call.                                      *)

C6_Premise == InCall("ensureAuthenticated") /\ PreLive /\ PreTokenValid

C6_ValidTokenNoNetwork ==
    C6_Premise =>
        /\ pc = "done"
        /\ result = Resolved
        /\ Requests = <<>>
        /\ token = pre.token
        /\ refreshToken = pre.refreshToken
        /\ lastActivityTime = pre.now

C6_Witness ==
    /\ C6_Premise
    /\ pc = "done"
    /\ result = Resolved
    /\ pre.lastActivityTime < pre.now
    /\ lastActivityTime = pre.now
    /\ pre.refreshToken # None
    /\ config.password = Secret

----------------------------------------------------------------------------
(* C7: ensureAuthenticated() on a live session with a missing or expired   *)
(* access token and a stored refresh token sends exactly one request, the  *)
(* refresh with that token as cookie, and never a login, whether or not    *)
(* the refresh token is itself near expiry; the call resolves when the     *)
(* refresh is answered 2xx and otherwise fails with the refresh's error,   *)
(* also when credentials are configured.                                   *)

C7_Premise ==
    InCall("ensureAuthenticated") /\ PreLive /\ ~PreTokenValid /\ pre.refreshToken # None

C7_RefreshOnceNeverLogin ==
    C7_Premise =>
        /\ Len(Requests) = 1
        /\ Requests[1].x = "refresh"
        /\ Requests[1].tok = pre.refreshToken
        /\ pc = "refresh_wait" \/ pc = "done"
        /\ pc = "done" =>
            /\ Len(Responses) = 1
            /\ Responses[1].n \in 200..299 => result = Resolved
            /\ Responses[1].n \notin 200..299 =>
                 result.kind \in {"RefreshFailed", "Network"}

C7_Witness ==
    /\ C7_Premise
    /\ pc = "done"
    /\ result.kind = "RefreshFailed"
    /\ RequestKinds = <<"refresh">>
    /\ isTokenExpired(pre.refreshToken, REFRESH_BUFFER_SECONDS, pre.now)
    /\ config.password = Secret

----------------------------------------------------------------------------
(* C8: ensureAuthenticated() on a live session with no usable access       *)
(* token, no refresh token and valid configured credentials takes the      *)
(* login branch once: it sends login requests only (exactly one when the   *)
(* server accepts the first), never a refresh; when it resolves the        *)
(* session is marked as having acquired its own login, and when it fails   *)
(* the mark is as it was before the call.                                  *)

C8_Premise ==
    /\ InCall("ensureAuthenticated")
    /\ PreLive
    /\ ~PreTokenValid
    /\ pre.refreshToken = None
    /\ CredentialsOk

C8_LoginOnceAndMark ==
    C8_Premise =>
        /\ Len(Ensures) = 1 /\ Ensures[1].x = "login"
        /\ \A i \in DOMAIN Requests : Requests[i].x = "login"
        /\ pre.rateLimitRetryCount < MAX_RATE_LIMIT_RETRIES => Len(Requests) >= 1
        /\ (Len(Responses) >= 1 /\ Responses[1].n \in 200..299) => Len(Requests) = 1
        /\ pc # "done" => shouldLogout = pre.shouldLogout
        /\ (pc = "done" /\ result.ok) =>
             /\ shouldLogout
             /\ Responses[Len(Responses)].n \in 200..299
        /\ (pc = "done" /\ ~result.ok) => shouldLogout = pre.shouldLogout

C8_Witness ==
    /\ C8_Premise
    /\ pc = "done"
    /\ result = Resolved
    /\ RequestKinds = <<"login">>
    /\ ~pre.shouldLogout
    /\ shouldLogout

----------------------------------------------------------------------------
(* C9: every GraphQL POST of query() follows, within its attempt, an       *)
(* ensureAuthenticated() that succeeded, and carries as bearer the access  *)
(* token the session holds then: the one the refresh or login of that      *)
(* attempt returned, else the one already held.  A client constructed      *)
(* with a refresh token only refreshes first and posts with the new token. *)

\* the access token held after the first i events of the log
RECURSIVE TokenAfter(_)
TokenAfter(i) ==
    IF i = 0 THEN pre.token
    ELSE IF IsResp(log[i]) /\ log[i].x = "tokens" THEN log[i].tok
    ELSE IF IsEnsure(log[i]) /\ log[i].x = "timeout" THEN None
    ELSE TokenAfter(i - 1)

C9_PostAfterAuthWithCurrentToken ==
    \A i \in DOMAIN log :
        IsGraphQLReq(log[i]) =>
            /\ call.fn = "query"
            /\ i > 1
            /\ log[i].tok # None
            /\ log[i].tok = TokenAfter(i - 1)
            /\ \/ IsEnsure(log[i - 1]) /\ log[i - 1].x = "valid"
               \/ /\ i > 3
                  /\ IsResp(log[i - 1]) /\ log[i - 1].n \in 200..299
                  /\ log[i - 1].x = "tokens"
                  /\ log[i - 2].e = "req" /\ log[i - 2].x \in {"refresh", "login"}
            /\ i = Len(log) => (pc = "graphql_wait" /\ token = log[i].tok)

C9_Witness ==
    /\ Done("query")
    /\ result = Resolved
    /\ pre.token = None /\ pre.refreshToken # None
    /\ RequestKinds = <<"refresh", "graphql">>
    /\ log[3].tok # None
    /\ log[4].tok = log[3].tok

----------------------------------------------------------------------------
(* C10: cleanup() sends a logout request if and only if the session is     *)
(* marked as having acquired its own login and holds a refresh token;      *)
(* otherwise it resolves at once, sends nothing and changes no field of    *)
(* the client, so that repeating it changes nothing either.                *)

C10_ShouldSend == pre.shouldLogout /\ pre.refreshToken # None

C10_CleanupLogsOutIffSelfAcquired ==
    InCall("cleanup") =>
        /\ C10_ShouldSend <=> (\E i \in DOMAIN Requests : Requests[i].x = "logout")
        /\ C10_ShouldSend => RequestKinds = <<"logout">> /\ Requests[1].tok = pre.refreshToken
        /\ ~C10_ShouldSend =>
            /\ pc = "done"
            /\ result = Resolved
            /\ log = <<>>
            /\ token = pre.token
            /\ refreshToken = pre.refreshToken
            /\ shouldLogout = pre.shouldLogout
            /\ rateLimitRetryCount = pre.rateLimitRetryCount
            /\ lastActivityTime = pre.lastActivityTime

C10_Witness ==
    /\ Done("cleanup")
    /\ C10_ShouldSend
    /\ RequestKinds = <<"logout">>
    /\ result = Resolved

C10_WitnessNoop ==
    /\ Done("cleanup")
    /\ pre.shouldLogout /\ pre.refreshToken = None
    /\ log = <<>>

----------------------------------------------------------------------------
(* Reading the process of the command *)

Exited == proc.phase = "exited"
LogoutSent == \E i \in DOMAIN log : log[i].e = "req" /\ log[i].x = "logout"

(* C11: when the command 'user list' has exited and the session logged in   *)
(* by itself during the command and holds a refresh token, a logout        *)
(* request was sent before the exit, whether the command body succeeded or  *)
(* failed.                                                                  *)

C11_LogoutBeforeExit ==
    (Exited /\ shouldLogout /\ refreshToken # None) => LogoutSent

(* C12: when the command body succeeded (the output was printed), the       *)
(* process exits with status 0 and prints no error, also when the logout    *)
(* request of cleanup() fails.                                              *)

C12_LogoutFailureKeepsSuccess ==
    (Exited /\ proc.stdout) => (proc.status = 0 /\ proc.stderr = Pending)

(* C13: a command whose body failed exits with the status of its error      *)
(* kind: 69 for an unreachable service, 75 for rate-limit exhaustion, 77    *)
(* for an authentication failure, 78 for a configuration error, 1 for any   *)
(* other error; a successful command exits 0.                               *)

ExpectedStatus(e) ==
    IF e.kind = "Network" THEN 69
    ELSE IF e.kind = "RateLimitExceeded" THEN 75
    ELSE IF e.kind \in {"LoginRequired", "LoginFailed", "AuthFailed", "SessionTimeout",
                        "InvalidUsername"} THEN 77
    ELSE IF e.kind = "UsernameRequired" THEN 78
    ELSE 1

C13_ExitStatusOfErrorKind ==
    Exited =>
        IF proc.stderr = Pending THEN proc.status = 0
        ELSE ~proc.stdout => proc.status = ExpectedStatus(proc.stderr)

----------------------------------------------------------------------------
(* The GraphQL response query() handled last: the latest event of the log   *)
(* other than a backoff sleep, when that is the response to a GraphQL POST  *)

Steps == {i \in DOMAIN log : log[i].e # "sleep"}
LastStep == CHOOSE i \in Steps : \A j \in Steps : j <= i
HandledGraphQL ==
    /\ Steps # {}
    /\ LastStep > 1
    /\ IsResp(log[LastStep])
    /\ IsGraphQLReq(log[LastStep - 1])
LastGraphQL == log[LastStep]

(* C14: query() resolves exactly when the GraphQL response it handled last  *)
(* has a 2xx status and a body with data and without errors.  Once a 2xx    *)
(* response with a non-empty errors sequence is handled, the call has       *)
(* failed with the GraphQL error, also when data is present; once a 2xx     *)
(* response with neither errors nor data is handled, it has failed with     *)
(* the 'no data' error.                                                     *)

C14_DataIffCleanEnvelope ==
    InCall("query") =>
        /\ (pc = "done" /\ result.ok) <=>
               (HandledGraphQL /\ LastGraphQL.n \in 200..299 /\ LastGraphQL.x = "data")
        /\ (HandledGraphQL /\ LastGraphQL.n \in 200..299
              /\ LastGraphQL.x \in {"errors", "errors+data"})
             => (pc = "done" /\ result.kind = "GraphQLError")
        /\ (HandledGraphQL /\ LastGraphQL.n \in 200..299 /\ LastGraphQL.x = "empty")
             => (pc = "done" /\ result.kind = "NoData")

(* C15: the step of query() that handles an HTTP 401 from the GraphQL       *)
(* endpoint ends the call with the re-authentication error: it sends no     *)
(* further request, starts no backoff, and leaves both tokens as they were. *)

Handles401 ==
    /\ call.fn = "query" /\ pc = "graphql_wait"
    /\ Len(log') > Len(log)
    /\ IsResp(log'[Len(log) + 1]) /\ log'[Len(log) + 1].n = 401

C15_Unauthorized ==
    Handles401 =>
        /\ pc' = "done"
        /\ result' = Err("AuthFailed", <<>>)
        /\ Len(log') = Len(log) + 1
        /\ token' = token /\ refreshToken' = refreshToken
        /\ rateLimitRetryCount' = rateLimitRetryCount

C15_UnauthorizedFailsAtOnce == [][C15_Unauthorized]_vars

C15_Witness ==
    /\ Done("query") /\ result = Err("AuthFailed", <<>>)
    /\ HandledGraphQL /\ LastGraphQL.n = 401
    /\ Len(Requests) = 1 /\ RequestKinds = <<"graphql">>
    /\ token = pre.token /\ token # None

----------------------------------------------------------------------------
(* C16: the message of an Error that login(), refresh() or query() threw    *)
(* contains no word of the form token=<value> or password=<value> taken     *)
(* from the server's text: each is replaced by its redaction marker.        *)

SecretWords == TokenWords \cup PasswordWords

C16_ThrownTextRedacted ==
    (call.fn \in {"login", "refresh", "query"} /\ pc = "done" /\ ~result.ok)
        => \A i \in DOMAIN result.text : result.text[i] \notin SecretWords

----------------------------------------------------------------------------
(* C17: login() sends a request only when a username and a password are    *)
(* resolved (argument, else configuration) and the username has 1 to 64     *)
(* characters, all of [A-Za-z0-9_.-]; otherwise it fails without any        *)
(* request.  When the login endpoint answers 2xx, login() resolves with     *)
(* the returned token pair, which it has stored as access and refresh       *)
(* token, and the activity timestamp is the time of that response.          *)

\* the instant of the last event of the log: the call began at pre.now and
\* time passed in its backoff sleeps only
RECURSIVE SumSeq(_)
SumSeq(q) == IF q = <<>> THEN 0 ELSE q[1] + SumSeq(Tail(q))
LastEventTime == pre.now + SumSeq(Waits)

C17_MaySend ==
    /\ ResolvedUser # NoUser /\ ResolvedPass # NoPass
    /\ ResolvedUser.len <= 64 /\ ResolvedUser.charsOk

C17_LoginGuardsAndStores ==
    InCall("login") =>
        /\ Requests # <<>> => C17_MaySend
        /\ ~C17_MaySend => (pc = "done" /\ ~result.ok /\ Requests = <<>>)
        /\ (log # <<>> /\ IsResp(log[Len(log)]) /\ log[Len(log)].n \in 200..299) =>
              LET r == log[Len(log)]
              IN  /\ pc = "done"
                  /\ result = ReturnedTokens(r.tok, r.rtok)
                  /\ token = r.tok /\ refreshToken = r.rtok
                  /\ lastActivityTime = LastEventTime
        /\ (pc = "done" /\ result.ok) =>
              (IsResp(log[Len(log)]) /\ log[Len(log)].n \in 200..299)

C17_Witness ==
    /\ Done("login") /\ result.ok
    /\ call.user = User(64, TRUE) /\ call.pass = NoPass /\ config.password = Secret
    /\ pre.refreshToken = None /\ refreshToken = TokFar /\ token = TokOpaque
    /\ pre.lastActivityTime < pre.now /\ lastActivityTime = pre.now

C17_WitnessTooLong ==
    /\ Done("login") /\ call.user = User(65, TRUE) /\ call.pass = Secret
    /\ result = Err("InputTooLong", <<>>) /\ log = <<>>

----------------------------------------------------------------------------
(* C18: refresh() without a stored refresh token fails with 'Refresh token  *)
(* is required' and sends nothing.  With one it sends a single request      *)
(* whose cookie is that refresh token; when the answer is 2xx it resolves   *)
(* with the access token replaced by the returned one; the stored refresh   *)
(* token is the same throughout.                                            *)

C18_RefreshReplacesAccessTokenOnly ==
    InCall("refresh") =>
        /\ refreshToken = pre.refreshToken
        /\ pre.refreshToken = None =>
              (pc = "done" /\ result = Err("RefreshRequired", <<>>) /\ log = <<>>)
        /\ pre.refreshToken # None =>
              /\ Len(Requests) = 1
              /\ Requests[1] = Ev("req", "refresh", 0, pre.refreshToken)
        /\ (pc = "done" /\ result.ok) <=>
              (Len(Responses) = 1 /\ Responses[1].n \in 200..299)
        /\ (pc = "done" /\ result.ok) => token = Responses[1].tok
        /\ ~(pc = "done" /\ result.ok) => token = pre.token

C18_Witness ==
    /\ Done("refresh") /\ result.ok
    /\ pre.token = TokSoon /\ token = TokFar
    /\ pre.refreshToken = TokOpaque /\ refreshToken = TokOpaque

----------------------------------------------------------------------------
(* C19: the expiry check reports a token expired when it has not exactly 3  *)
(* segments or its payload does not decode to JSON, not expired when the    *)
(* claims have no exp, and otherwise expired exactly when                   *)
(* now >= exp*1000 - buffer*1000, for every exp from 0 upward; the buffer   *)
(* is 60 s for the access token and 300 s for the refresh token.            *)

C19_Expected(tok, bufferSeconds) ==
    IF tok.nseg # 3 \/ tok.claims = "garbage" THEN TRUE
    ELSE IF tok.claims = "noexp" THEN FALSE
    ELSE now >= tok.exp * 1000 - bufferSeconds * 1000

C19_ExpiryCheck ==
    /\ pc = "access_checked" => result = Verdict(C19_Expected(token, 60))
    /\ pc = "refresh_checked" => result = Verdict(C19_Expected(refreshToken, 300))

----------------------------------------------------------------------------
(* C20: validateEmail rejects with the length error every address longer    *)
(* than 254 characters; it rejects with 'Invalid email format' every        *)
(* address of at most 254 characters that has no '@', an empty local part   *)
(* or domain, a blank or a further '@', no '.' in the domain, or a domain   *)
(* that starts or ends with '.'; it accepts every other address.            *)

C20_Text == (IF call.email.head > 0 THEN <<"x">> ELSE <<>>) \o call.email.tail
C20_Ats == {i \in DOMAIN C20_Text : C20_Text[i] = "@"}
C20_At == CHOOSE i \in C20_Ats : \A j \in C20_Ats : i <= j
C20_Domain == SubSeq(C20_Text, C20_At + 1, Len(C20_Text))

C20_Malformed ==
    \/ C20_Ats = {}
    \/ Cardinality(C20_Ats) > 1
    \/ \E i \in DOMAIN C20_Text : C20_Text[i] = " "
    \/ C20_At = 1
    \/ C20_Domain = <<>>
    \/ \A i \in DOMAIN C20_Domain : C20_Domain[i] # "."
    \/ C20_Domain[1] = "."
    \/ C20_Domain[Len(C20_Domain)] = "."

C20_EmailValidation ==
    (call.fn = "validateEmail" /\ pc = "done") =>
        IF call.email.head + Len(call.email.tail) > 254
        THEN result = Err("InputTooLong", <<>>)
        ELSE IF C20_Malformed THEN result = Err("InvalidEmail", <<>>)
        ELSE result = Resolved

----------------------------------------------------------------------------
(* C21: a query() with an upload file path that has a '..' segment fails    *)
(* with the path-traversal error, reads no file and sends no GraphQL POST;  *)
(* with a path without '..' segments that names no existing file it fails   *)
(* with the file-not-found error and sends no GraphQL POST; a path without  *)
(* '..' segments that names an existing file is read and posted.            *)

C21_HasParentSegment == \E i \in DOMAIN call.file : call.file[i] = ".."
C21_Target == <<"home", "u">> \o call.file
C21_Exists == C21_Target[Len(C21_Target)] \in {"x", "x..y"}
C21_Read == \E i \in DOMAIN log : log[i].e = "read"
C21_Posted == \E i \in DOMAIN log : IsGraphQLReq(log[i])

C21_UploadPathChecked ==
    (call.fn = "query" /\ "file" \in DOMAIN call) =>
        /\ C21_HasParentSegment =>
              /\ ~C21_Read /\ ~C21_Posted
              /\ pc = "done" /\ result = Err("PathTraversal", <<>>)
        /\ (~C21_HasParentSegment /\ ~C21_Exists) =>
              /\ ~C21_Read /\ ~C21_Posted
              /\ pc = "done" /\ result.kind = "FileNotFound"
        /\ (~C21_HasParentSegment /\ C21_Exists) => (C21_Read /\ C21_Posted)

----------------------------------------------------------------------------
(* C22: every backoff wait is 1000 * 2^(c-1) ms, c being the retry counter  *)
(* after the failure that caused it; c is 1 or 2, so a wait is 1000 ms or   *)
(* 2000 ms.  An operation that starts with counter 0 and sees only 429      *)
(* responses waits 1000 ms, then 2000 ms; its third failure ends it         *)
(* without a wait, and 4000 ms is never slept.                              *)

Sleeping == pc \in {"query_backoff", "login_backoff"}

----------------------------------------------------------------------------
(* C23: a single query() call sends at most 3 GraphQL POSTs, whatever the   *)
(* initial tokens and whatever the server answers.                          *)

GraphQLPosts == SelectSeq(log, IsGraphQLReq)

C23_AtMostThreePosts == InCall("query") => Len(GraphQLPosts) <= 3

----------------------------------------------------------------------------
(* C24: the request createUser sends for a user with an avatar file has     *)
(* the base64 encoding of the file's bytes as avatar variable, and each of  *)
(* id, email, displayName, firstName and lastName as the caller supplied    *)
(* it (the empty string when not supplied).                                 *)

C24_AvatarSplicedInItsSlot ==
    (call.fn = "createUser" /\ pc = "graphql_wait") =>
        LET sent == log[1].variables
        IN  /\ sent.avatar = [kind |-> "base64", v |-> call.args.avatar]
            /\ \A f \in {"id", "email", "displayName", "firstName", "lastName"} :
                   sent[f] = [kind |-> "text", v |-> call.args[f]]

----------------------------------------------------------------------------
(* C25: a session that is timed out (more than 30 minutes since the last    *)
(* recorded activity) stays timed out through every step except the        *)
(* success of an explicit login(): every ensureAuthenticated() or query()   *)
(* begun meanwhile fails at once with the session-timeout error, sending    *)
(* nothing, whatever credentials are configured.  The success of the        *)
(* login() ends the timeout, and an ensureAuthenticated() begun on a        *)
(* session that is not timed out and holds a fresh token resolves.          *)

C25_TimedOut == now - lastActivityTime > 30 * 60 * 1000

C25_LoginSucceeds ==
    call.fn = "login" /\ pc = "login_wait" /\ pc' = "done" /\ result'.ok

C25_Begins(fn) ==
    pc \in {"idle", "done"} /\ now' = now /\ call'.fn = fn

C25_Step ==
    /\ (C25_TimedOut /\ ~C25_LoginSucceeds) => C25_TimedOut'
    /\ (C25_TimedOut /\ C25_LoginSucceeds) => ~C25_TimedOut'
    /\ (C25_TimedOut /\ (C25_Begins("query") \/ C25_Begins("ensureAuthenticated"))) =>
          /\ pc' = "done" /\ result' = Err("SessionTimeout", <<>>)
          /\ \A i \in DOMAIN log' : log'[i].e # "req"
    /\ (~C25_TimedOut /\ C25_Begins("ensureAuthenticated") /\ token = TokFar) =>
          (pc' = "done" /\ result'.ok)

C25_TimeoutLastsUntilLogin == [][C25_Step]_vars

----------------------------------------------------------------------------
(* C26: no step of a client makes it hold a refresh token without an        *)
(* access token: from a state with no tokens, an access token only, or      *)
(* both, every login, refresh, logout, ensureAuthenticated, query and       *)
(* cleanup step leads to such a state again, and a session timeout clears   *)
(* both tokens in one step.  Only the constructor, given a configuration    *)
(* with a refresh token and no access token, produces a client that holds   *)
(* a refresh token alone, until its first successful refresh or login or    *)
(* its timeout.                                                             *)

C26_RefreshOnly == refreshToken # None /\ token = None

C26_Step ==
    /\ ~C26_RefreshOnly => ~C26_RefreshOnly'
    /\ (pc' = "done" /\ result' = Err("SessionTimeout", <<>>) /\ now' = now
          /\ pc \in {"idle", "done", "query_backoff"})
         => (token' = None /\ refreshToken' = None)

----------------------------------------------------------------------------
(* C27: while a login() or a refresh() has not resolved, and when it has    *)
(* failed (missing credentials or refresh token, invalid username, non-2xx  *)
(* response, unparsable body, rate-limit exhaustion, network error), the    *)
(* access token, the refresh token, the activity timestamp and the          *)
(* self-acquired-login flag are as they were before the call.               *)

C27_FailureLeavesSessionAsItWas ==
    ((InCall("login") \/ InCall("refresh")) /\ ~(pc = "done" /\ result.ok)) =>
        /\ token = pre.token
        /\ refreshToken = pre.refreshToken
        /\ lastActivityTime = pre.lastActivityTime
        /\ shouldLogout = pre.shouldLogout

C27_Witness ==
    /\ Done("login") /\ result = Err("BadJson", <<>>)
    /\ pre.token # None /\ pre.refreshToken # None
    /\ pre.lastActivityTime < pre.now

----------------------------------------------------------------------------
(* C28: the self-acquired-login flag is never reset, and a step sets it     *)
(* only inside ensureAuthenticated() (called directly or by query()) when   *)
(* it handles the 2xx answer of the login it started; no step of a direct   *)
(* login(), refresh(), logout() or cleanup() changes it, and no step of     *)
(* logout() or cleanup() changes the stored access or refresh token.  So a  *)
(* cleanup() that sent its logout request leaves the flag and the refresh   *)
(* token in place, and the next cleanup() sends another one.                *)

C28_Step ==
    /\ shouldLogout => shouldLogout'
    /\ shouldLogout' # shouldLogout =>
          /\ call.fn \in {"ensureAuthenticated", "query"} /\ call' = call
          /\ pc = "login_wait"
          /\ Len(log') > Len(log)
          /\ IsResp(log'[Len(log) + 1]) /\ log'[Len(log) + 1].n \in 200..299
          /\ token' = log'[Len(log) + 1].tok
    /\ call'.fn \in {"login", "refresh", "logout", "cleanup"} =>
          shouldLogout' = shouldLogout
    /\ call'.fn \in {"logout", "cleanup"} =>
          token' = token /\ refreshToken' = refreshToken

C28_FlagSetOnlyBySelfLogin == [][C28_Step]_vars

C28_Witness ==
    /\ Done("cleanup") /\ result = Resolved
    /\ RequestKinds = <<"logout">>
    /\ shouldLogout /\ pre.shouldLogout
    /\ token = pre.token /\ refreshToken = pre.refreshToken
    /\ refreshToken # None

----------------------------------------------------------------------------
(* C29: updateUserAttribute or updateGroupAttribute called with 'del' and   *)
(* a value v on a list attribute whose values do not change during the      *)
(* call.  If v is not among the values, the call fails and sends no update  *)
(* mutation.  If the values without v are not empty, the one update         *)
(* mutation sent inserts exactly them.  If they are empty, no insert is     *)
(* ever sent, and when every read is answered the one update mutation sent  *)
(* is removeAttributes.                                                     *)

C29_IsUpdate(ev) == ev.e = "query" /\ ev.x = "update"
C29_IsValues(ev) == ev.e = "answer" /\ ev.x = "values"
C29_IsSchema(ev) == ev.e = "answer" /\ ev.x = "schema"
C29_Updates == SelectSeq(log, C29_IsUpdate)
C29_Values == SelectSeq(log, C29_IsValues)
C29_Schemas == SelectSeq(log, C29_IsSchema)
C29_Failed(ev) == ev.e = "answer" /\ (~ev.ok \/ (ev.x = "groups" /\ ev.v = "absent"))

\* a 'del' with a value, the attribute a list, its values read and the same
\* at every read
C29_Premise ==
    /\ log # <<>>
    /\ log[1].v.mutation = "del" /\ ~Falsy(log[1].v.value)
    /\ \A i \in DOMAIN C29_Schemas :
         C29_Schemas[i].ok /\ C29_Schemas[i].v.found /\ C29_Schemas[i].v.isList
    /\ C29_Values # <<>>
    /\ \A i \in DOMAIN C29_Values :
         C29_Values[i].ok /\ C29_Values[i].v = C29_Values[1].v

C29_Current == C29_Values[1].v
C29_Remaining == filter(C29_Current, log[1].v.value)

C29_DelSendsTheRightUpdate ==
    C29_Premise =>
        /\ Len(C29_Updates) <= 1
        /\ ~includes(C29_Current, log[1].v.value) =>
              /\ C29_Updates = <<>>
              /\ pc = "done" /\ result = Err("NotListed", <<>>)
        /\ (includes(C29_Current, log[1].v.value) /\ C29_Remaining # <<>>) =>
              /\ Len(C29_Updates) = 1
              /\ C29_Updates[1].v = InsertAttributes(TRUE, C29_Remaining)
        /\ (includes(C29_Current, log[1].v.value) /\ C29_Remaining = <<>>) =>
              /\ \A i \in DOMAIN C29_Updates : C29_Updates[i].v = RemoveAttributes
              /\ (pc = "done" /\ \A i \in DOMAIN log : ~C29_Failed(log[i])) =>
                    /\ Len(C29_Updates) = 1
                    /\ result = Resolved

C29_Witness ==
    /\ C29_Premise
    /\ call.fn = "updateGroupAttribute"
    /\ C29_Current = <<"a", "a">> /\ log[1].v.value = "a"
    /\ pc = "done" /\ result = Resolved
    /\ Len(C29_Updates) = 1 /\ C29_Updates[1].v = RemoveAttributes

C29_WitnessInsert ==
    /\ C29_Premise
    /\ call.fn = "updateUserAttribute"
    /\ C29_Current = <<"a", "b">> /\ log[1].v.value = "a"
    /\ pc = "done" /\ result = Resolved
    /\ C29_Updates[1].v = InsertAttributes(TRUE, <<"b">>)

----------------------------------------------------------------------------
(* C30: setPassword closes the input of the subprocess before it awaits     *)
(* the exit status, and while it awaits it the subprocess is never held     *)
(* up: as long as the subprocess has not exited it can read, write or       *)
(* exit, because both of its outputs are being read.                        *)

C30_SubprocessCanStep ==
    \/ proc.stdin > 0
    \/ proc.outLeft > 0 /\ proc.stdout < PipeCapacity
    \/ proc.errLeft > 0 /\ proc.stderr < PipeCapacity
    \/ proc.outLeft = 0 /\ proc.errLeft = 0
    \/ proc.eager /\ (proc.stdout > 0 \/ proc.stderr > 0)

C30_SetPasswordCannotDeadlock ==
    (pc = "await_exited" /\ proc.phase = "running") =>
        /\ ~proc.stdinOpen
        /\ C30_SubprocessCanStep

====
